---- MODULE Spec2Model ----
(***************************************************************************)
(* Energy-survey chatbot: extraction of appliance records from backend     *)
(* text (utils/json_extractor.py), validation (models/appliance.py,        *)
(* services/validation_service.py), reconciliation and the chat loop       *)
(* (main.py, database/queries.py).                                         *)
(*                                                                         *)
(* Text is a sequence of atoms.  An atom is one character ("{", ",", " ",  *)
(* a digit, ...) or one run of letters written as a single word ("name",   *)
(* "True", "Fan"); the two markers are atoms of their own, "<fence>" is    *)
(* the run of three backquotes that opens or closes a markdown code block, *)
(* and "//" the two slashes that open a comment.                           *)
(* A JSON value is a record [t, n, s, l, kv]: t is its type, n an integer  *)
(* (an int, a bool as 0/1, a float in tenths), s the atoms of a string,    *)
(* l the items of a list, kv the members of an object in insertion order.  *)
(***************************************************************************)
EXTENDS Integers, Sequences, FiniteSets, TLC

VARIABLES
    data,        \* SpecValidate: the field map given to validate_appliance
    changed,     \* SpecValidate: the fields set out of range so far
    validation,  \* SpecValidate: what validate_appliance returned for data
    parts,       \* SpecExtract: the pieces of the backend text written so far
    appliances,  \* SpecExtract: what extract_all_json returned for the text
    extracted,   \* SpecExtract: whether extract_all_json has been called
    pc,                      \* chat_loop: where the loop stands
    turns,                   \* chat_loop: the user messages sent to the backend so far
    conversation_context,    \* the table of the messages of the session
    appliances_table,        \* the table of the appliances of the session
    next_id,                 \* the next appliance_id the table gives out
    response,                \* chat_loop: the text of the backend's response
    extracted_appliances,    \* chat_loop: what extract_all_json found in it
    idx,                     \* chat_loop: the entry the loop over them stands at
    outcome,                 \* chat_loop: what the loop body did with the last entry
    appliance_count,         \* chat_loop
    consecutive_duplicates,  \* chat_loop
    last_response,           \* chat_loop
    last_questions_asked,    \* chat_loop
    ending,                  \* chat_loop: "Ending conversation" has been printed
    previous_response,       \* chat_loop: the text of the response before this one
    loop_detected,           \* chat_loop: the warning printed for the last response
    session_appliances,      \* SpecSchedule: the rows get_session_appliances returns
    time_windows,            \* SpecSchedule: what analyze_time_windows returned for them
    messages,                \* SpecMessages: the turns given to ensure_alternating_messages
    alternating,             \* SpecMessages: what it returned for them
    edit_appliances,         \* handle_edit_command: its list appliances
    edits,                   \* handle_edit_command: the commands read so far
    raw_json,                \* SpecClean: the text given to clean_json_string
    cleanings,               \* SpecClean: what it returned, once and applied again
    history_limit,           \* chat_loop: CONV_MODE['history_limit']
    submitted                \* chat_loop: the messages given to call_llm on the last turn

vvars == <<data, changed, validation>>
xvars == <<parts, appliances, extracted>>
cvars == <<pc, turns, conversation_context, appliances_table, next_id, response,
           extracted_appliances, idx, outcome, appliance_count,
           consecutive_duplicates, last_response, last_questions_asked, ending,
           previous_response, loop_detected>>
svars == <<session_appliances, time_windows>>
mvars == <<messages, alternating>>
evars == <<edit_appliances, edits>>
kvars == <<raw_json, cleanings>>
hvars == <<history_limit, submitted>>
ovars == <<svars, mvars, evars, kvars, hvars>>
vars  == <<vvars, xvars, cvars, ovars>>

-----------------------------------------------------------------------------
(* JSON values *)

IntV(i)   == [t |-> "int",   n |-> i, s |-> <<>>, l |-> <<>>, kv |-> <<>>]
FloatV(i) == [t |-> "float", n |-> i, s |-> <<>>, l |-> <<>>, kv |-> <<>>]
BoolV(b)  == [t |-> "bool",  n |-> IF b THEN 1 ELSE 0, s |-> <<>>, l |-> <<>>, kv |-> <<>>]
StrV(a)   == [t |-> "str",   n |-> 0, s |-> a, l |-> <<>>, kv |-> <<>>]
ListV(xs) == [t |-> "list",  n |-> 0, s |-> <<>>, l |-> xs, kv |-> <<>>]
DictV(ms) == [t |-> "dict",  n |-> 0, s |-> <<>>, l |-> <<>>, kv |-> ms]
NullV     == [t |-> "null",  n |-> 0, s |-> <<>>, l |-> <<>>, kv |-> <<>>]

\* Python truthiness of a value (bool(x))
Truthy(v) ==
    CASE v.t \in {"int", "float", "bool"} -> v.n # 0
      [] v.t = "str"  -> v.s # <<>>
      [] v.t = "list" -> v.l # <<>>
      [] v.t = "dict" -> v.kv # <<>>
      [] OTHER -> FALSE

\* dict members: a sequence of [k, v]; a later member of the same key wins
Has(d, key) == \E i \in 1..Len(d.kv) : d.kv[i].k = key

Get(d, key, default) ==
    IF Has(d, key)
    THEN d.kv[CHOOSE i \in 1..Len(d.kv) :
                 /\ d.kv[i].k = key
                 /\ \A j \in (i+1)..Len(d.kv) : d.kv[j].k # key].v
    ELSE default

RECURSIVE DropKey(_, _)
DropKey(ms, key) ==
    IF ms = <<>> THEN <<>>
    ELSE IF Head(ms).k = key THEN DropKey(Tail(ms), key)
    ELSE <<Head(ms)>> \o DropKey(Tail(ms), key)

\* d[key] = v : an existing key keeps its position, a new one is appended
Put(d, key, v) ==
    IF Has(d, key)
    THEN DictV([i \in 1..Len(d.kv) |->
                  IF d.kv[i].k = key THEN [k |-> key, v |-> v] ELSE d.kv[i]])
    ELSE DictV(Append(d.kv, [k |-> key, v |-> v]))

\* d.pop(key, None)
Pop(d, key) == DictV(DropKey(d.kv, key))

Keys(d) == {d.kv[i].k : i \in 1..Len(d.kv)}

\* Python's == on two dicts: the same keys with equal values, in any order
DictEq(a, b) ==
    /\ Keys(a) = Keys(b)
    /\ \A key \in Keys(a) : Get(a, key, NullV) = Get(b, key, NullV)

-----------------------------------------------------------------------------
(* Atoms *)

Digits == <<"0", "1", "2", "3", "4", "5", "6", "7", "8", "9">>

IsDigit(a) == \E i \in 1..10 : Digits[i] = a

DigitVal(a) == (CHOOSE i \in 1..10 : Digits[i] = a) - 1

RECURSIVE DigitsVal(_)
DigitsVal(ds) ==
    IF ds = <<>> THEN 0
    ELSE 10 * DigitsVal(SubSeq(ds, 1, Len(ds) - 1)) + DigitVal(ds[Len(ds)])

AllDigits(ds) == ds # <<>> /\ \A i \in 1..Len(ds) : IsDigit(ds[i])

\* the number of characters each word atom stands for; any other atom is one character
WordLen ==
    [w \in {"name", "null", "true", "json", "True", "None"} |-> 4] @@
    [w \in {"power", "fixed", "false", "False"} |-> 5] @@
    [w \in {"number", "update"} |-> 6] @@
    [w \in {"window_"} |-> 7] @@
    [w \in {"func_time"} |-> 9] @@
    [w \in {"func_cycle", "wd_we_type"} |-> 10] @@
    [w \in {"random_var_w"} |-> 12] @@
    [w \in {"num_windows"} |-> 11] @@
    [w \in {"data_complete"} |-> 13] @@
    [w \in {"occasional_use"} |-> 14] @@
    [w \in {"[JSON_DATA_END]"} |-> 15] @@
    [w \in {"[JSON_DATA_START]"} |-> 17] @@
    [w \in {"TV", "no", "//", "Hi"} |-> 2] @@
    [w \in {"Fan", "fan", "yes", "<fence>"} |-> 3]

AtomLen(a) == IF a \in DOMAIN WordLen THEN WordLen[a] ELSE 1

RECURSIVE StrLen(_)
StrLen(as) == IF as = <<>> THEN 0 ELSE AtomLen(Head(as)) + StrLen(Tail(as))

-----------------------------------------------------------------------------
(* models/appliance.py: ApplianceExtracted *)

K_name           == <<"name">>
K_number         == <<"number">>
K_power          == <<"power">>
K_func_time      == <<"func_time">>
K_num_windows    == <<"num_windows">>
K_window_1       == <<"window_", "1">>
K_window_2       == <<"window_", "2">>
K_window_3       == <<"window_", "3">>
K_func_cycle     == <<"func_cycle">>
K_fixed          == <<"fixed">>
K_occasional_use == <<"occasional_use">>
K_wd_we_type     == <<"wd_we_type">>
K_data_complete  == <<"data_complete">>
K_random_var_w   == <<"random_var_w">>
K_update         == <<"update">>

\* the outcome of validating one field: its value, or its errors (their loc)
FieldOk(v)     == [ok |-> TRUE,  v |-> v,     errs |-> <<>>]
FieldErr(locs) == [ok |-> FALSE, v |-> NullV, errs |-> locs]

\* pydantic's lax conversion to int: an int, a bool, a float without fraction,
\* or a string of digits
AsInt(v) ==
    CASE v.t \in {"int", "bool"} -> [ok |-> TRUE, n |-> v.n]
      [] v.t = "float" /\ v.n % 10 = 0 -> [ok |-> TRUE, n |-> v.n \div 10]
      [] v.t = "str" /\ AllDigits(v.s) -> [ok |-> TRUE, n |-> DigitsVal(v.s)]
      [] OTHER -> [ok |-> FALSE, n |-> 0]

\* pydantic's lax conversion to float, in tenths
AsFloat(v) ==
    CASE v.t = "float" -> [ok |-> TRUE, n |-> v.n]
      [] v.t \in {"int", "bool"} -> [ok |-> TRUE, n |-> 10 * v.n]
      [] v.t = "str" /\ AllDigits(v.s) -> [ok |-> TRUE, n |-> 10 * DigitsVal(v.s)]
      [] OTHER -> [ok |-> FALSE, n |-> 0]

\* int = Field(default | ..., ge=lo, le=hi); le is absent when ~bounded
IntField(d, key, loc, required, default, lo, hi, bounded) ==
    IF ~Has(d, key)
    THEN IF required THEN FieldErr(<<loc>>) ELSE FieldOk(IntV(default))
    ELSE LET c == AsInt(Get(d, key, NullV)) IN
         IF c.ok /\ c.n >= lo /\ (bounded => c.n <= hi)
         THEN FieldOk(IntV(c.n))
         ELSE FieldErr(<<loc>>)

\* name: str = Field(..., min_length=1, max_length=100)
NameField(d) ==
    LET v == Get(d, K_name, NullV) IN
    IF Has(d, K_name) /\ v.t = "str" /\ StrLen(v.s) >= 1 /\ StrLen(v.s) <= 100
    THEN FieldOk(v)
    ELSE FieldErr(<<"name">>)

\* validate_window_range
WindowRangeOk(w) ==
    /\ ~(w[1] < 0 \/ w[1] > 1440)
    /\ ~(w[2] < 0 \/ w[2] > 1440)
    /\ ~(w[2] <= w[1])

\* window_i: List[int] = Field(..., min_length=2, max_length=2), Optional for 2 and 3,
\* then validate_window_range on the converted list
WindowField(d, key, loc, required) ==
    LET v == Get(d, key, NullV) IN
    IF ~Has(d, key)
    THEN IF required THEN FieldErr(<<loc>>) ELSE FieldOk(NullV)
    ELSE IF v.t = "null"
    THEN IF required THEN FieldErr(<<loc>>) ELSE FieldOk(NullV)
    ELSE IF v.t # "list" THEN FieldErr(<<loc>>)
    ELSE LET bad == {i \in 1..Len(v.l) : ~AsInt(v.l[i]).ok}
             w   == [i \in 1..Len(v.l) |-> AsInt(v.l[i]).n]
         IN  IF bad # {}
             THEN FieldErr([i \in 1..Cardinality(bad) |-> loc])
             ELSE IF Len(w) # 2 THEN FieldErr(<<loc>>)
             ELSE IF ~WindowRangeOk(w) THEN FieldErr(<<loc>>)
             ELSE FieldOk(ListV([i \in 1..2 |-> IntV(w[i])]))

\* validate_cycle_vs_time: runs on a given (not defaulted) func_cycle that passed
\* ge=1; info.data holds func_time only when func_time validated
CycleExceedsTime(v, func_time) == v > func_time

FuncCycleField(d, ft) ==
    LET f == IntField(d, K_func_cycle, "func_cycle", FALSE, 1, 1, 0, FALSE) IN
    IF Has(d, K_func_cycle) /\ f.ok /\ ft.ok /\ CycleExceedsTime(f.v.n, ft.v.n)
    THEN FieldErr(<<"func_cycle">>)
    ELSE f

\* fixed: str = Field("no", pattern="^(yes|no)$")
FixedField(d) ==
    LET v == Get(d, K_fixed, NullV) IN
    IF ~Has(d, K_fixed) THEN FieldOk(StrV(<<"no">>))
    ELSE IF v.t = "str" /\ v.s \in {<<"yes">>, <<"no">>} THEN FieldOk(v)
    ELSE FieldErr(<<"fixed">>)

\* occasional_use: float = Field(1.0, ge=0.0, le=1.0)
OccasionalField(d) ==
    LET c == AsFloat(Get(d, K_occasional_use, NullV)) IN
    IF ~Has(d, K_occasional_use) THEN FieldOk(FloatV(10))
    ELSE IF c.ok /\ c.n >= 0 /\ c.n <= 10 THEN FieldOk(FloatV(c.n))
    ELSE FieldErr(<<"occasional_use">>)

\* data_complete: bool = Field(True)
CompleteField(d) ==
    LET v == Get(d, K_data_complete, NullV) IN
    IF ~Has(d, K_data_complete) THEN FieldOk(BoolV(TRUE))
    ELSE IF v.t \in {"bool", "int"} /\ v.n \in {0, 1} THEN FieldOk(BoolV(v.n = 1))
    ELSE FieldErr(<<"data_complete">>)

\* ApplianceExtracted(**d) for a dict d: the declared fields in declaration order,
\* every error collected; keys that are no field of the model are ignored
ApplianceExtracted(d) ==
    LET name == NameField(d)
        num  == IntField(d, K_number, "number", FALSE, 1, 1, 100, TRUE)
        pow  == IntField(d, K_power, "power", TRUE, 0, 1, 10000, TRUE)
        ft   == IntField(d, K_func_time, "func_time", TRUE, 0, 1, 1440, TRUE)
        nw   == IntField(d, K_num_windows, "num_windows", FALSE, 1, 1, 3, TRUE)
        w1   == WindowField(d, K_window_1, "window_1", TRUE)
        w2   == WindowField(d, K_window_2, "window_2", FALSE)
        w3   == WindowField(d, K_window_3, "window_3", FALSE)
        fc   == FuncCycleField(d, ft)
        fx   == FixedField(d)
        occ  == OccasionalField(d)
        wd   == IntField(d, K_wd_we_type, "wd_we_type", FALSE, 2, 0, 2, TRUE)
        dc   == CompleteField(d)
    IN  [errors |-> name.errs \o num.errs \o pow.errs \o ft.errs \o nw.errs \o w1.errs
                    \o w2.errs \o w3.errs \o fc.errs \o fx.errs \o occ.errs \o wd.errs
                    \o dc.errs,
         \* model_dump()
         dump |-> DictV(<<[k |-> K_name, v |-> name.v],
                          [k |-> K_number, v |-> num.v],
                          [k |-> K_power, v |-> pow.v],
                          [k |-> K_func_time, v |-> ft.v],
                          [k |-> K_num_windows, v |-> nw.v],
                          [k |-> K_window_1, v |-> w1.v],
                          [k |-> K_window_2, v |-> w2.v],
                          [k |-> K_window_3, v |-> w3.v],
                          [k |-> K_func_cycle, v |-> fc.v],
                          [k |-> K_fixed, v |-> fx.v],
                          [k |-> K_occasional_use, v |-> occ.v],
                          [k |-> K_wd_we_type, v |-> wd.v],
                          [k |-> K_data_complete, v |-> dc.v]>>)]

-----------------------------------------------------------------------------
(* services/validation_service.py *)

\* models.appliance is part of the repository, so the import at the top succeeds
USE_PYDANTIC == TRUE

\* int(x) of the manual branch: [ok, n]; ok is FALSE where int() raises
PyInt(v) ==
    CASE v.t \in {"int", "bool"} -> [ok |-> TRUE, n |-> v.n]
      [] v.t = "float" -> [ok |-> TRUE, n |-> v.n \div 10]
      [] v.t = "str" /\ AllDigits(v.s) -> [ok |-> TRUE, n |-> DigitsVal(v.s)]
      [] OTHER -> [ok |-> FALSE, n |-> 0]

ManualErrors(d) ==
    LET pw == PyInt(Get(d, K_power, IntV(0)))
        ft == PyInt(Get(d, K_func_time, IntV(0)))
        fc == PyInt(Get(d, K_func_cycle, IntV(1)))
        w1 == Get(d, K_window_1, NullV)
    IN  (IF ~Truthy(Get(d, K_name, NullV)) THEN <<"name">> ELSE <<>>)
        \o (IF ~pw.ok \/ pw.n <= 0 THEN <<"power">> ELSE <<>>)
        \o (IF ~ft.ok \/ ft.n <= 0 THEN <<"func_time">> ELSE <<>>)
        \o (IF fc.ok /\ ft.ok /\ fc.n > ft.n THEN <<"func_cycle">> ELSE <<>>)
        \o (IF Truthy(w1)
            THEN IF w1.t # "list" \/ Len(w1.l) # 2 THEN <<"window_1">>
                 ELSE IF w1.l[2].n <= w1.l[1].n THEN <<"window_1">> ELSE <<>>
            ELSE <<>>)

\* validate_appliance(data): {'valid', 'errors', 'data'}; raised is TRUE where the
\* call ends in an exception other than ValidationError (** of a non-mapping)
validate_appliance(d) ==
    IF d.t # "dict"
    THEN [valid |-> FALSE, errors |-> <<>>, data |-> NullV, raised |-> TRUE]
    ELSE IF USE_PYDANTIC
    THEN LET m == ApplianceExtracted(d) IN
         IF m.errors = <<>>
         THEN [valid |-> TRUE, errors |-> <<>>, data |-> m.dump, raised |-> FALSE]
         ELSE [valid |-> FALSE, errors |-> m.errors, data |-> NullV, raised |-> FALSE]
    ELSE LET errors == ManualErrors(d) IN
         [valid |-> errors = <<>>, errors |-> errors,
          data |-> IF errors = <<>> THEN d ELSE NullV, raised |-> FALSE]

\* two other acceptance tests, the strict one and the one lenient up to two
\* violations, which the properties of the threshold tell apart from the loop's
AcceptedIfValid(v) == v.valid

AcceptedUpToTwo(v) == v.valid \/ Len(v.errors) <= 2

\* main.py: the chat loop's acceptance test on a validation result
Accepted(v) == v.valid \/ Len(v.errors) <= 1


-----------------------------------------------------------------------------
(* Text: sequences of atoms *)

JSON_DATA_START == "[JSON_DATA_START]"
JSON_DATA_END   == "[JSON_DATA_END]"

\* Python's str.isspace / the regex class \s
IsSpace(a) == a \in {" ", "\n"}

Quotes == {"\"", "'"}

\* atoms written as one run of letters and underscores, and the digits: the regex
\* class \w; every other atom is punctuation, white space or a marker
Punctuation ==
    {"{", "}", "[", "]", ",", ":", "\"", "'", " ", "\n", ".", "-", "//", "?",
     "<fence>", JSON_DATA_START, JSON_DATA_END}

IsWord(a) == a \notin Punctuation

\* the first index >= i of an atom satisfying P, or Len(t) + 1
FirstFrom(t, i, P(_)) ==
    IF \E j \in i..Len(t) : P(t[j])
    THEN CHOOSE j \in i..Len(t) : P(t[j]) /\ \A k \in i..(j - 1) : ~P(t[k])
    ELSE Len(t) + 1

NotSpace(a) == ~IsSpace(a)

\* the index after the white space that starts at i (the regex \s*)
SkipSpace(t, i) == FirstFrom(t, i, NotSpace)

\* str.lstrip, str.rstrip, str.strip
LStrip(t) == SubSeq(t, SkipSpace(t, 1), Len(t))

RStrip(t) ==
    IF \E j \in 1..Len(t) : ~IsSpace(t[j])
    THEN SubSeq(t, 1, CHOOSE j \in 1..Len(t) :
                         ~IsSpace(t[j]) /\ \A k \in (j + 1)..Len(t) : IsSpace(t[k]))
    ELSE <<>>

Strip(t) == LStrip(RStrip(t))

\* str.count
Count(t, a) == Cardinality({i \in 1..Len(t) : t[i] = a})

\* whether t holds the atoms p from index i on
\* the atom at index i, or the empty atom past either end
AtomAt(t, i) == IF i \in 1..Len(t) THEN t[i] ELSE ""

At(t, i, p) ==
    /\ i >= 1
    /\ i + Len(p) - 1 <= Len(t)
    /\ \A k \in 1..Len(p) : t[i + k - 1] = p[k]

\* the character offset at which atom i starts
RECURSIVE Offset(_, _)
Offset(t, i) == IF i <= 1 THEN 0 ELSE Offset(t, i - 1) + AtomLen(t[i - 1])

Min(a, b) == IF a < b THEN a ELSE b

-----------------------------------------------------------------------------
(* utils/json_extractor.py: clean_json_string *)

\* re.sub(r'^<fence>(?:json)?\s*', '', cleaned)
StripOpeningFence(t) ==
    IF At(t, 1, <<"<fence>">>)
    THEN LET i == IF At(t, 2, <<"json">>) THEN 3 ELSE 2
         IN  SubSeq(t, SkipSpace(t, i), Len(t))
    ELSE t

\* re.sub(r'\s*<fence>$', '', cleaned): $ is the end of the text, or the position
\* before a newline that ends it
StripClosingFence(t) ==
    LET e == IF Len(t) >= 2 /\ t[Len(t)] = "\n" /\ t[Len(t) - 1] = "<fence>"
             THEN Len(t) - 1 ELSE Len(t)
    IN  IF e >= 1 /\ t[e] = "<fence>"
        THEN RStrip(SubSeq(t, 1, e - 1)) \o SubSeq(t, e + 1, Len(t))
        ELSE t

\* cleaned.startswith("{") and '"' not in cleaned[:20]
SingleQuoted(t) ==
    /\ At(t, 1, <<"{">>)
    \* an atom is at least one character: only the first 20 atoms can start there
    /\ \A i \in 1..Min(Len(t), 20) : t[i] = "\"" => Offset(t, i) >= 20

\* cleaned.replace("'", '"')
ReplaceQuotes(t) == [i \in 1..Len(t) |-> IF t[i] = "'" THEN "\"" ELSE t[i]]

\* ,\s*([}\]]) with the comma at c
TrailingCommaAt(t, c) ==
    AtomAt(t, c) = "," /\ AtomAt(t, SkipSpace(t, c + 1)) \in {"}", "]"}

\* re.sub(r',\s*([}\]])', r'\1', cleaned): a comma, and the white space after it,
\* is removed where a closing brace or bracket follows
RECURSIVE StripTrailingCommas(_)
StripTrailingCommas(t) ==
    IF \E c \in 1..Len(t) : TrailingCommaAt(t, c)
    THEN LET c == CHOOSE c \in 1..Len(t) :
                     TrailingCommaAt(t, c) /\ \A k \in 1..(c - 1) : ~TrailingCommaAt(t, k)
             j == SkipSpace(t, c + 1)
         IN  SubSeq(t, 1, c - 1) \o <<t[j]>> \o StripTrailingCommas(SubSeq(t, j + 1, Len(t)))
    ELSE t

IsComment(a) == a = "//"

IsNewline(a) == a = "\n"

\* re.sub(r'//.*?$', '', cleaned, flags=re.MULTILINE): from // to the end of its line
RECURSIVE StripComments(_)
StripComments(t) ==
    LET c == FirstFrom(t, 1, IsComment) IN
    IF c > Len(t) THEN t
    ELSE SubSeq(t, 1, c - 1)
         \o StripComments(SubSeq(t, FirstFrom(t, c, IsNewline), Len(t)))

\* re.sub(r'\bTrue\b', 'true', ...), and False and None: the word on its own
JsonLiteral(a) ==
    CASE a = "True" -> "true" [] a = "False" -> "false" [] a = "None" -> "null"
      [] OTHER -> a

ReplaceLiterals(t) ==
    [i \in 1..Len(t) |->
        IF /\ i > 1 => ~IsWord(t[i - 1])
           /\ i < Len(t) => ~IsWord(t[i + 1])
        THEN JsonLiteral(t[i])
        ELSE t[i]]

clean_json_string(raw) ==
    LET c1 == Strip(StripClosingFence(StripOpeningFence(Strip(raw))))
        c2 == IF SingleQuoted(c1) THEN ReplaceQuotes(c1) ELSE c1
    IN  ReplaceLiterals(StripComments(StripTrailingCommas(c2)))

-----------------------------------------------------------------------------
(* json.loads and json.dumps on atoms *)

\* the atom at index i, or "" past the end of the text
NotDigit(a) == ~IsDigit(a)

IsDoubleQuote(a) == a = "\""

\* a failed parse (json.JSONDecodeError)
NoParse == [ok |-> FALSE, v |-> NullV, i |-> 0]

Parsed(v, i) == [ok |-> TRUE, v |-> v, i |-> i]

\* "..." at i: the atoms up to the next double quote; a string holds no raw newline
ParseString(t, i) ==
    LET j == FirstFrom(t, i + 1, IsDoubleQuote) IN
    IF j > Len(t) \/ \E k \in (i + 1)..(j - 1) : t[k] = "\n"
    THEN NoParse
    ELSE Parsed(StrV(SubSeq(t, i + 1, j - 1)), j + 1)

\* -?(0|[1-9]\d*)(\.\d+)? at i; a float keeps its first fractional digit (the texts
\* of this model write floats with one)
ParseNumber(t, i) ==
    LET s    == IF AtomAt(t, i) = "-" THEN i + 1 ELSE i
        sign == IF AtomAt(t, i) = "-" THEN -1 ELSE 1
    IN  IF ~IsDigit(AtomAt(t, s)) THEN NoParse
        ELSE LET e  == IF t[s] = "0" THEN s + 1 ELSE FirstFrom(t, s, NotDigit)
                 ip == DigitsVal(SubSeq(t, s, e - 1))
             IN  IF AtomAt(t, e) = "." /\ IsDigit(AtomAt(t, e + 1))
                 THEN Parsed(FloatV(sign * (10 * ip + DigitVal(t[e + 1]))),
                             FirstFrom(t, e + 1, NotDigit))
                 ELSE Parsed(IntV(sign * ip), e)

RECURSIVE ParseValue(_, _), ParseItems(_, _, _), ParseMembers(_, _, _)

\* the value that starts at i
ParseValue(t, i) ==
    LET a == AtomAt(t, i) IN
    CASE a = "\"" -> ParseString(t, i)
      [] a = "{" ->
            LET j == SkipSpace(t, i + 1) IN
            IF AtomAt(t, j) = "}" THEN Parsed(DictV(<<>>), j + 1)
            ELSE ParseMembers(t, j, DictV(<<>>))
      [] a = "[" ->
            LET j == SkipSpace(t, i + 1) IN
            IF AtomAt(t, j) = "]" THEN Parsed(ListV(<<>>), j + 1)
            ELSE ParseItems(t, j, <<>>)
      [] a = "true"  -> Parsed(BoolV(TRUE), i + 1)
      [] a = "false" -> Parsed(BoolV(FALSE), i + 1)
      [] a = "null"  -> Parsed(NullV, i + 1)
      [] a = "-" \/ IsDigit(a) -> ParseNumber(t, i)
      [] OTHER -> NoParse

\* the items of a list from i on, up to its closing bracket
ParseItems(t, i, acc) ==
    LET r == ParseValue(t, i) IN
    IF ~r.ok THEN NoParse
    ELSE LET k == SkipSpace(t, r.i) IN
         CASE AtomAt(t, k) = "," -> ParseItems(t, SkipSpace(t, k + 1), Append(acc, r.v))
           [] AtomAt(t, k) = "]" -> Parsed(ListV(Append(acc, r.v)), k + 1)
           [] OTHER -> NoParse

\* the members of an object from i on, up to its closing brace
ParseMembers(t, i, acc) ==
    IF AtomAt(t, i) # "\"" THEN NoParse
    ELSE LET key == ParseString(t, i) IN
         IF ~key.ok THEN NoParse
         ELSE LET c == SkipSpace(t, key.i) IN
              IF AtomAt(t, c) # ":" THEN NoParse
              ELSE LET r == ParseValue(t, SkipSpace(t, c + 1)) IN
                   IF ~r.ok THEN NoParse
                   ELSE LET k == SkipSpace(t, r.i)
                            d == Put(acc, key.v.s, r.v)
                        IN  CASE AtomAt(t, k) = "," ->
                                     ParseMembers(t, SkipSpace(t, k + 1), d)
                              [] AtomAt(t, k) = "}" -> Parsed(d, k + 1)
                              [] OTHER -> NoParse

\* json.loads(t): [ok, v]; ok is FALSE where it raises JSONDecodeError
json_loads(t) ==
    LET r == ParseValue(t, SkipSpace(t, 1)) IN
    IF r.ok /\ SkipSpace(t, r.i) > Len(t)
    THEN [ok |-> TRUE, v |-> r.v]
    ELSE [ok |-> FALSE, v |-> NullV]

\* the decimal digits of a natural number
RECURSIVE NatAtoms(_)
NatAtoms(n) ==
    IF n < 10 THEN <<Digits[n + 1]>>
    ELSE NatAtoms(n \div 10) \o <<Digits[(n % 10) + 1]>>

IntAtoms(n) == IF n < 0 THEN <<"-">> \o NatAtoms(-n) ELSE NatAtoms(n)

\* repr of a float given in tenths
FloatAtoms(n) ==
    IF n < 0 THEN <<"-">> \o NatAtoms((-n) \div 10) \o <<".", Digits[((-n) % 10) + 1]>>
    ELSE NatAtoms(n \div 10) \o <<".", Digits[(n % 10) + 1]>>

RECURSIVE json_dumps(_), DumpItems(_), DumpMembers(_)

\* json.dumps(v), with its default separators ", " and ": "
json_dumps(v) ==
    CASE v.t = "int"   -> IntAtoms(v.n)
      [] v.t = "float" -> FloatAtoms(v.n)
      [] v.t = "bool"  -> IF v.n = 1 THEN <<"true">> ELSE <<"false">>
      [] v.t = "null"  -> <<"null">>
      [] v.t = "str"   -> <<"\"">> \o v.s \o <<"\"">>
      [] v.t = "list"  -> <<"[">> \o DumpItems(v.l) \o <<"]">>
      [] v.t = "dict"  -> <<"{">> \o DumpMembers(v.kv) \o <<"}">>

DumpItems(xs) ==
    IF xs = <<>> THEN <<>>
    ELSE json_dumps(Head(xs))
         \o (IF Len(xs) > 1 THEN <<",", " ">> \o DumpItems(Tail(xs)) ELSE <<>>)

DumpMembers(ms) ==
    IF ms = <<>> THEN <<>>
    ELSE <<"\"">> \o Head(ms).k \o <<"\"", ":", " ">> \o json_dumps(Head(ms).v)
         \o (IF Len(ms) > 1 THEN <<",", " ">> \o DumpMembers(Tail(ms)) ELSE <<>>)

-----------------------------------------------------------------------------
(* utils/json_extractor.py: try_fix_truncated_json, try_manual_extraction *)

\* a function's result that may be None
None    == [some |-> FALSE, v |-> NullV]
Some(v) == [some |-> TRUE, v |-> v]

\* str.rfind: the last index of atom a, or 0
LastIndex(t, a) ==
    IF \E i \in 1..Len(t) : t[i] = a
    THEN CHOOSE i \in 1..Len(t) : t[i] = a /\ \A j \in (i + 1)..Len(t) : t[j] # a
    ELSE 0

\* whether the fragment after the last comma looks complete: it ends in a closing
\* brace or bracket (a marker's last character is a bracket), a double quote, a
\* digit, true or false
LooksComplete(after_comma) ==
    /\ after_comma # <<>>
    /\ LET last == after_comma[Len(after_comma)] IN
       \/ last \in {"}", "]", "\"", "true", "false", JSON_DATA_START, JSON_DATA_END}
       \/ IsDigit(last)

\* "]" * open_brackets + "}" * open_braces; a count below 1 adds nothing
Closers(open_brackets, open_braces) ==
    [i \in 1..(IF open_brackets > 0 THEN open_brackets ELSE 0) |-> "]"]
    \o [i \in 1..(IF open_braces > 0 THEN open_braces ELSE 0) |-> "}"]

\* attempt[:last_comma] where what follows the last comma does not look complete
CutAtLastComma(attempt, last_comma) ==
    IF /\ last_comma > 1
       /\ ~LooksComplete(Strip(SubSeq(attempt, last_comma + 1, Len(attempt))))
    THEN SubSeq(attempt, 1, last_comma - 1)
    ELSE attempt

\* json.loads(attempt), None where it raises JSONDecodeError
LoadedOrNone(parsed) == IF parsed.ok THEN Some(parsed.v) ELSE None

\* the repair of a cleaned text that is not balanced
CloseOpen(cleaned, open_braces, open_brackets) ==
    IF open_braces = 0 /\ open_brackets = 0 THEN None
    ELSE LoadedOrNone(json_loads(StripTrailingCommas(
             CutAtLastComma(cleaned, LastIndex(cleaned, ","))
             \o Closers(open_brackets, open_braces))))

FixCleaned(cleaned) ==
    IF ~At(cleaned, 1, <<"{">>) THEN None
    ELSE CloseOpen(cleaned,
                   Count(cleaned, "{") - Count(cleaned, "}"),
                   Count(cleaned, "[") - Count(cleaned, "]"))

try_fix_truncated_json(raw) == FixCleaned(clean_json_string(raw))

\* ["\']?field["\']?\s*:\s* with the field name at i: the index of what follows, or 0
AfterKey(t, i, field) ==
    IF ~At(t, i, field) THEN 0
    ELSE LET j == i + Len(field)
             c == SkipSpace(t, IF AtomAt(t, j) \in Quotes THEN j + 1 ELSE j)
         IN  IF AtomAt(t, c) = ":" THEN SkipSpace(t, c + 1) ELSE 0

IsQuote(a) == a \in Quotes

\* ["\']([^"\']+)["\'] at v: the atoms between the quotes, at least one
QuotedAt(t, v) ==
    LET e == FirstFrom(t, v + 1, IsQuote) IN
    IF AtomAt(t, v) \in Quotes /\ e <= Len(t) /\ e > v + 1
    THEN Some(StrV(SubSeq(t, v + 1, e - 1)))
    ELSE None

\* ["\']name["\']\s*:\s*["\']([^"\']+)["\'] with the opening quote at i
NameMatch(t, i, field) ==
    IF AtomAt(t, i) \in Quotes /\ AtomAt(t, i + 2) \in Quotes /\ AfterKey(t, i + 1, field) > 0
    THEN QuotedAt(t, AfterKey(t, i + 1, field))
    ELSE None

\* (\d+) at v, as int
DigitsAt(t, v) ==
    IF IsDigit(AtomAt(t, v))
    THEN Some(IntV(DigitsVal(SubSeq(t, v, FirstFrom(t, v, NotDigit) - 1))))
    ELSE None

IntMatch(t, i, field) ==
    IF AfterKey(t, i, field) > 0 THEN DigitsAt(t, AfterKey(t, i, field)) ELSE None

NotDigitOrDot(a) == ~(IsDigit(a) \/ a = ".")

\* ([\d.]+) at v: the run of digits and dots
FloatRun(t, v) == SubSeq(t, v, FirstFrom(t, v, NotDigitOrDot) - 1)

FloatMatch(t, i, field) ==
    IF AfterKey(t, i, field) > 0 /\ FloatRun(t, AfterKey(t, i, field)) # <<>>
    THEN Some(StrV(FloatRun(t, AfterKey(t, i, field))))
    ELSE None

\* float(run): raises ValueError unless the run is digits with at most one dot
\* and at least one digit
FloatOk(run) == Count(run, ".") <= 1 /\ \E i \in 1..Len(run) : IsDigit(run[i])

\* float(run) in tenths
FloatOf(run) ==
    LET dot == LastIndex(run, ".")
        ip  == IF dot = 0 THEN run ELSE SubSeq(run, 1, dot - 1)
    IN  FloatV(10 * DigitsVal(ip)
               + (IF dot > 0 /\ dot < Len(run) THEN DigitVal(run[dot + 1]) ELSE 0))

StringMatch(t, i, field) ==
    IF AfterKey(t, i, field) > 0 THEN QuotedAt(t, AfterKey(t, i, field)) ELSE None

\* \[\s*(\d+)\s*,\s*(\d+)\s*\] at v
PairAt(t, v) ==
    LET a  == SkipSpace(t, v + 1)
        ae == FirstFrom(t, a, NotDigit)
        c  == SkipSpace(t, ae)
        b  == SkipSpace(t, c + 1)
        be == FirstFrom(t, b, NotDigit)
        z  == SkipSpace(t, be)
    IN  IF /\ AtomAt(t, v) = "[" /\ IsDigit(AtomAt(t, a)) /\ AtomAt(t, c) = ","
           /\ IsDigit(AtomAt(t, b)) /\ AtomAt(t, z) = "]"
        THEN Some(ListV(<<IntV(DigitsVal(SubSeq(t, a, ae - 1))),
                          IntV(DigitsVal(SubSeq(t, b, be - 1)))>>))
        ELSE None

WindowMatch(t, i, field) ==
    IF AfterKey(t, i, field) > 0 THEN PairAt(t, AfterKey(t, i, field)) ELSE None

\* (true|false|True|False) after data_complete, then .lower() == 'true'
CompleteMatch(t, i, field) ==
    LET v == AfterKey(t, i, field) IN
    IF v > 0 /\ AtomAt(t, v) \in {"true", "false", "True", "False"}
    THEN Some(BoolV(AtomAt(t, v) \in {"true", "True"}))
    ELSE None

\* re.search: the match of M for the field at the first index where it succeeds
Search(t, M(_, _, _), field) ==
    IF \E i \in 1..Len(t) : M(t, i, field).some
    THEN M(t, CHOOSE i \in 1..Len(t) :
                 M(t, i, field).some /\ \A j \in 1..(i - 1) : ~M(t, j, field).some,
           field)
    ELSE None

\* result[key] = m.v when the search matched
PutFound(d, key, m) == IF m.some THEN Put(d, key, m.v) ELSE d

\* result[key] = float(m.group(1)) when the search matched
PutFloat(d, key, m) == IF m.some THEN Put(d, key, FloatOf(m.v.s)) ELSE d

\* result.setdefault(key, v)
SetDefault(d, key, v) == IF Has(d, key) THEN d ELSE Put(d, key, v)

\* the fields the searches find, in the order the function looks for them
FoundFields(t) ==
    PutFound(PutFound(PutFound(PutFound(PutFound(
    PutFloat(PutFloat(
    PutFound(PutFound(PutFound(PutFound(PutFound(PutFound(
    Put(DictV(<<>>), K_name, Search(t, NameMatch, K_name).v),
        K_number, Search(t, IntMatch, K_number)),
        K_power, Search(t, IntMatch, K_power)),
        K_func_time, Search(t, IntMatch, K_func_time)),
        K_num_windows, Search(t, IntMatch, K_num_windows)),
        K_func_cycle, Search(t, IntMatch, K_func_cycle)),
        K_wd_we_type, Search(t, IntMatch, K_wd_we_type)),
        K_occasional_use, Search(t, FloatMatch, K_occasional_use)),
        K_random_var_w, Search(t, FloatMatch, K_random_var_w)),
        K_fixed, Search(t, StringMatch, K_fixed)),
        K_window_1, Search(t, WindowMatch, K_window_1)),
        K_window_2, Search(t, WindowMatch, K_window_2)),
        K_window_3, Search(t, WindowMatch, K_window_3)),
        K_data_complete, Search(t, CompleteMatch, K_data_complete))

\* the setdefault calls at the end of the function
WithDefaults(d) ==
    SetDefault(SetDefault(SetDefault(SetDefault(SetDefault(SetDefault(SetDefault(d,
        K_number, IntV(1)),
        K_num_windows, IntV(1)),
        K_func_cycle, IntV(1)),
        K_fixed, StrV(<<"no">>)),
        K_occasional_use, FloatV(10)),
        K_wd_we_type, IntV(2)),
        K_data_complete, BoolV(TRUE))

\* float() of a found run raises ValueError, caught by the function's except clause
FloatRaises(m) == m.some /\ ~FloatOk(m.v.s)

\* the result is returned when it has a power and a func_time
ResultIfUsable(result) ==
    IF Truthy(Get(result, K_power, NullV)) /\ Truthy(Get(result, K_func_time, NullV))
    THEN Some(WithDefaults(result))
    ELSE None

try_manual_extraction(raw_text) ==
    IF ~Search(raw_text, NameMatch, K_name).some THEN None
    ELSE IF \/ FloatRaises(Search(raw_text, FloatMatch, K_occasional_use))
            \/ FloatRaises(Search(raw_text, FloatMatch, K_random_var_w))
    THEN None
    ELSE ResultIfUsable(FoundFields(raw_text))

-----------------------------------------------------------------------------
(* utils/json_extractor.py: extract_all_json *)

IsStart(a) == a = JSON_DATA_START
IsEnd(a)   == a = JSON_DATA_END
IsBrace(a) == a \in {"{", "}"}

\* re.findall(r'\[JSON_DATA_START\](.*?)\[JSON_DATA_END\]', text, re.DOTALL)
RECURSIVE CompleteBlocks(_)
CompleteBlocks(t) ==
    LET i == FirstFrom(t, 1, IsStart)
        j == FirstFrom(t, i + 1, IsEnd)
    IN  IF i > Len(t) \/ j > Len(t) THEN <<>>
        ELSE <<SubSeq(t, i + 1, j - 1)>> \o CompleteBlocks(SubSeq(t, j + 1, Len(t)))

\* re.findall(r'\[JSON_DATA_START\](.*?)$', text, re.DOTALL): what follows the first
\* start marker, up to the end of the text or the newline that ends it
TruncatedBlocks(t) ==
    LET i == FirstFrom(t, 1, IsStart)
        e == IF Len(t) > i /\ t[Len(t)] = "\n" THEN Len(t) - 1 ELSE Len(t)
    IN  IF i > Len(t) THEN <<>> ELSE <<SubSeq(t, i + 1, e)>>

\* \{[^{}]*"name"[^{}]*"power"[^{}]*\} with the opening brace at i
RawObjectAt(t, i) ==
    LET j == FirstFrom(t, i + 1, IsBrace) IN
    /\ AtomAt(t, i) = "{"
    /\ AtomAt(t, j) = "}"
    /\ \E a \in (i + 1)..(j - 1) : \E b \in (a + 3)..(j - 1) :
          /\ At(t, a, <<"\"", "name", "\"">>) /\ a + 2 < j
          /\ At(t, b, <<"\"", "power", "\"">>) /\ b + 2 < j

\* re.findall(json_pattern, text, re.DOTALL)
RECURSIVE RawObjects(_)
RawObjects(t) ==
    IF \E i \in 1..Len(t) : RawObjectAt(t, i)
    THEN LET i == CHOOSE i \in 1..Len(t) :
                     RawObjectAt(t, i) /\ \A k \in 1..(i - 1) : ~RawObjectAt(t, k)
             j == FirstFrom(t, i + 1, IsBrace)
         IN  <<SubSeq(t, i, j)>> \o RawObjects(SubSeq(t, j + 1, Len(t)))
    ELSE <<>>

\* [x] if x is not None and truthy, else nothing
IfTruthy(x) == IF x.some /\ Truthy(x.v) THEN <<x.v>> ELSE <<>>

\* the repair is tried first; the manual extraction only where it gave nothing
Recovered(fixed, manual) == IF IfTruthy(fixed) # <<>> THEN IfTruthy(fixed) ELSE IfTruthy(manual)

Recover(raw) == Recovered(try_fix_truncated_json(raw), try_manual_extraction(raw))

RecoverIfAny(raw) == IF raw = <<>> THEN <<>> ELSE Recover(raw)

\* Strategy 2, one truncated match: what it appends to appliances
ParseTruncated(match) == RecoverIfAny(Strip(match))

\* ApplianceExtracted(**data_dict): the dump of the model where it validates; a
\* validation error, or the TypeError of ** on what is not a mapping, is caught
\* and the decoded value is appended as it is
Validated(data_dict, model) ==
    IF USE_PYDANTIC /\ data_dict.t = "dict" /\ model.errors = <<>>
    THEN <<model.dump>>
    ELSE <<data_dict>>

\* the model of a decoded value; only a mapping is given to the model
ModelOf(data_dict) ==
    ApplianceExtracted(IF data_dict.t = "dict" THEN data_dict ELSE DictV(<<>>))

Decoded(match, loaded) ==
    IF loaded.ok THEN Validated(loaded.v, ModelOf(loaded.v)) ELSE Recover(match)

\* the body of the loop over matches: what one match appends to appliances
ParseMatch(match) == Decoded(match, json_loads(clean_json_string(match)))

RECURSIVE FlatMap(_, _)
FlatMap(F(_), xs) == IF xs = <<>> THEN <<>> ELSE F(Head(xs)) \o FlatMap(F, Tail(xs))

\* Strategy 3 where neither markers nor recovered records were found
MatchesOf(text, complete, recovered) ==
    IF complete = <<>> /\ recovered = <<>> THEN RawObjects(text) ELSE complete

Strategies(text, complete, recovered) ==
    recovered \o FlatMap(ParseMatch, MatchesOf(text, complete, recovered))

\* Strategy 2 only where Strategy 1 found no complete block
Scanned(text, complete) ==
    Strategies(text, complete,
               IF complete = <<>> THEN FlatMap(ParseTruncated, TruncatedBlocks(text))
               ELSE <<>>)

extract_all_json(text) ==
    IF text = <<>> THEN <<>> ELSE Scanned(text, CompleteBlocks(text))

-----------------------------------------------------------------------------
(* Validation of one field map: validate_appliance applied to records drawn
   from a bounded set, with fields set out of their range one at a time *)

\* how many fields of one record are set out of range
MaxChanged == 2

Member(key, v) == [k |-> key, v |-> v]

\* records that satisfy every rule of the data model
ValidRecords ==
    { DictV(<<Member(K_name, StrV(<<"Fan">>)),
              Member(K_number, IntV(number)),
              Member(K_power, IntV(power)),
              Member(K_func_time, IntV(ft[1])),
              Member(K_num_windows, IntV(num_windows)),
              Member(K_window_1, ListV(<<IntV(360), IntV(600)>>)),
              Member(K_func_cycle, IntV(ft[2])),
              Member(K_fixed, StrV(<<"no">>)),
              Member(K_occasional_use, FloatV(occ)),
              Member(K_wd_we_type, IntV(wd)),
              Member(K_data_complete, BoolV(TRUE))>>) :
        number \in {1, 100}, power \in {1, 10000},
        ft \in {<<2, 1>>, <<240, 30>>, <<1440, 1>>},
        num_windows \in {1, 3}, occ \in {0, 10}, wd \in {0, 2} }

\* the fields rule R2 ranges over
RangeFields ==
    {K_number, K_power, K_func_time, K_num_windows, K_occasional_use, K_wd_we_type}

\* values just outside each field's range
OutOfRange(key) ==
    CASE key = K_number         -> {IntV(0), IntV(101)}
      [] key = K_power          -> {IntV(0), IntV(10001)}
      [] key = K_func_time      -> {IntV(0), IntV(1441)}
      [] key = K_num_windows    -> {IntV(0), IntV(4)}
      [] key = K_occasional_use -> {FloatV(-1), FloatV(11)}
      [] key = K_wd_we_type     -> {IntV(-1), IntV(3)}

\* the variables of the other specifications, at rest
IdleValidate == data = NullV /\ changed = {} /\ validation = NullV
IdleExtract  == parts = <<>> /\ appliances = <<>> /\ extracted = FALSE
IdleChat ==
    /\ pc = "idle" /\ turns = 0 /\ conversation_context = <<>>
    /\ appliances_table = <<>> /\ next_id = 1 /\ response = <<>>
    /\ extracted_appliances = <<>> /\ idx = 0 /\ outcome = NullV
    /\ appliance_count = 0 /\ consecutive_duplicates = 0
    /\ last_response = NullV /\ last_questions_asked = <<>> /\ ending = FALSE
    /\ previous_response = <<>> /\ loop_detected = "none"

\* nothing analyzed: no rows, and no result
NotAnalyzed == [occupied |-> <<>>, available |-> <<>>, analyzed |-> FALSE, raised |-> FALSE]

IdleSchedule == session_appliances = <<>> /\ time_windows = NotAnalyzed

\* ensure_alternating_messages not called
NotEnsured == [fixed |-> <<>>, done |-> FALSE]

IdleMessages == messages = <<>> /\ alternating = NotEnsured

\* SpecEdit is not running
IdleEdit == edit_appliances = <<>> /\ edits = 0

\* SpecClean is not running
NotCleaned == [once |-> <<>>, twice |-> <<>>, done |-> FALSE]

IdleClean == raw_json = <<>> /\ cleanings = NotCleaned

\* SpecHistory is not running
IdleHistory == history_limit = 0 /\ submitted = <<>>

IdleOther == IdleSchedule /\ IdleMessages /\ IdleEdit /\ IdleClean /\ IdleHistory

InitValidate ==
    /\ data \in ValidRecords
    /\ changed = {}
    /\ validation = validate_appliance(data)
    /\ IdleExtract
    /\ IdleChat
    /\ IdleOther

SetOutOfRange(key, v) ==
    /\ key \notin changed
    /\ Cardinality(changed) < MaxChanged
    /\ data' = Put(data, key, v)
    /\ changed' = changed \cup {key}
    /\ validation' = validate_appliance(data')
    /\ UNCHANGED <<xvars, cvars, ovars>>

NextValidate ==
    \E key \in RangeFields : \E v \in OutOfRange(key) : SetOutOfRange(key, v)

SpecValidate == InitValidate /\ [][NextValidate]_vars

\* C3: one field out of its R2 range on an otherwise valid record gives exactly one
\* violation and the record is accepted; two or more such fields give at least two
\* violations and the record is rejected
C3_LenientThreshold ==
    /\ Cardinality(changed) = 1 =>
          Len(validation.errors) = 1 /\ Accepted(validation)
    /\ Cardinality(changed) >= 2 =>
          Len(validation.errors) >= 2 /\ ~Accepted(validation)

C3_Witness ==
    /\ changed = {K_func_time}
    /\ Get(data, K_func_time, NullV) = IntV(1441)
    /\ validation.errors = <<"func_time">>
    /\ Accepted(validation)

-----------------------------------------------------------------------------
(* Extraction from one backend text: the text is written piece by piece,
   blocks between markers and prose, and extract_all_json is applied to it *)

\* how many pieces one backend text is made of
MaxParts == 2

\* an ApplianceRecord with all its fields, as the backend is told to write it
Record(name, window_1, update) ==
    DictV(<<Member(K_name, StrV(name)),
            Member(K_number, IntV(1)),
            Member(K_power, IntV(10)),
            Member(K_func_time, IntV(240)),
            Member(K_num_windows, IntV(1)),
            Member(K_window_1, window_1),
            Member(K_window_2, NullV),
            Member(K_window_3, NullV),
            Member(K_func_cycle, IntV(1)),
            Member(K_fixed, StrV(<<"no">>)),
            Member(K_occasional_use, FloatV(10)),
            Member(K_wd_we_type, IntV(2)),
            Member(K_data_complete, BoolV(TRUE)),
            Member(K_update, BoolV(update))>>)

Window(start, end) == ListV(<<IntV(start), IntV(end)>>)

Fan        == Record(<<"Fan">>, Window(360, 600), FALSE)
FanUpdate  == Record(<<"Fan">>, Window(480, 600), TRUE)
NoWindow   == Record(<<"TV">>, NullV, FALSE)

\* the text up to its first atom a, that atom included
Through(t, a) == SubSeq(t, 1, FirstFrom(t, 1, LAMBDA x : x = a))

\* what a block may hold: a serialized record, a serialized value that is not an
\* object, a record cut short (inside a key, after the bracket that opens its
\* window, after the bracket that closes it), or words
Contents ==
    { [record |-> Fan,       text |-> json_dumps(Fan)],
      [record |-> FanUpdate, text |-> json_dumps(FanUpdate)],
      [record |-> NoWindow,  text |-> json_dumps(NoWindow)],
      [record |-> NullV,     text |-> json_dumps(ListV(<<IntV(1), IntV(2)>>))],
      [record |-> NullV,     text |-> SubSeq(json_dumps(Fan), 1, 30)],
      [record |-> NullV,     text |-> Through(json_dumps(Fan), "[")],
      [record |-> NullV,     text |-> Through(json_dumps(Fan), "]")],
      [record |-> NullV,     text |-> <<"Hi", "?">>] }

Block(c, terminated) ==
    [kind |-> "block", record |-> c.record, content |-> c.text, terminated |-> terminated]

Prose == [kind |-> "prose", record |-> NullV, content |-> <<"Hi", "\n">>, terminated |-> TRUE]

\* the text of one piece: a block is its content after the start marker, and
\* before the end marker when it is terminated
PartText(p) ==
    IF p.kind = "prose" THEN p.content
    ELSE <<JSON_DATA_START>> \o p.content
         \o (IF p.terminated THEN <<JSON_DATA_END>> ELSE <<>>)

RECURSIVE Render(_)
Render(ps) == IF ps = <<>> THEN <<>> ELSE PartText(Head(ps)) \o Render(Tail(ps))

InitExtract ==
    /\ parts = <<>>
    /\ appliances = <<>>
    /\ extracted = FALSE
    /\ IdleValidate
    /\ IdleChat
    /\ IdleOther

WriteBlock(c, terminated) ==
    /\ ~extracted
    /\ Len(parts) < MaxParts
    /\ parts' = Append(parts, Block(c, terminated))
    /\ UNCHANGED <<appliances, extracted, vvars, cvars, ovars>>

WriteProse ==
    /\ ~extracted
    /\ Len(parts) < MaxParts
    /\ parts' = Append(parts, Prose)
    /\ UNCHANGED <<appliances, extracted, vvars, cvars, ovars>>

Extract ==
    /\ ~extracted
    /\ appliances' = extract_all_json(Render(parts))
    /\ extracted' = TRUE
    /\ UNCHANGED <<parts, vvars, cvars, ovars>>

NextExtract ==
    \/ \E c \in Contents : \E terminated \in BOOLEAN : WriteBlock(c, terminated)
    \/ WriteProse
    \/ Extract

SpecExtract == InitExtract /\ [][NextExtract]_vars

\* the text is one terminated block that holds the serialization of a record
\* satisfying the rules of the data model
OneSerializedRecord ==
    /\ Len(parts) = 1
    /\ parts[1].kind = "block" /\ parts[1].terminated
    /\ parts[1].record.t = "dict"
    /\ validate_appliance(parts[1].record).valid

\* the fields of an ApplianceRecord, the update flag among them
RecordFields ==
    {K_name, K_number, K_power, K_func_time, K_num_windows, K_window_1, K_window_2,
     K_window_3, K_func_cycle, K_fixed, K_occasional_use, K_wd_we_type,
     K_data_complete, K_update}

\* a field's value; the update flag of a record without one reads as false
Field(d, key) == Get(d, key, IF key = K_update THEN BoolV(FALSE) ELSE NullV)

SameFields(a, b) == \A key \in RecordFields : Field(a, key) = Field(b, key)

\* C7: a record that satisfies the data model, serialized as one object between the
\* markers, comes back from extract_all_json as exactly one record whose every
\* field, the update flag included, equals the original's
C7_RoundTrip ==
    extracted /\ OneSerializedRecord =>
        /\ Len(appliances) = 1
        /\ appliances[1].t = "dict"
        /\ SameFields(appliances[1], parts[1].record)

\* how many start markers the text holds: its candidate blocks
Candidates == Cardinality({i \in 1..Len(parts) : parts[i].kind = "block"})

\* C8: extract_all_json returns at most one entry per candidate block, and every
\* entry is a field map, never a list, number, string or null
C8_EntriesAreRecords ==
    extracted =>
        /\ Len(appliances) <= Candidates
        /\ \A i \in 1..Len(appliances) : appliances[i].t = "dict"

\* the text ends in its only block without end marker, and the content of that
\* block, taken alone, is recovered as a record
EndsUnterminated ==
    /\ parts # <<>>
    /\ parts[Len(parts)].kind = "block"
    /\ ~parts[Len(parts)].terminated
    /\ \A i \in 1..(Len(parts) - 1) : parts[i].terminated
    /\ ParseTruncated(parts[Len(parts)].content) # <<>>

\* C10: a block with a start marker and no end marker is attempted also when
\* terminated blocks come before it, and its record is the last one returned
C10_UnterminatedAttempted ==
    extracted /\ EndsUnterminated =>
        /\ appliances # <<>>
        /\ <<appliances[Len(appliances)]>> = ParseTruncated(parts[Len(parts)].content)

\* the closing brackets and braces a cut-short record may lack
ClosingRuns == {<<"}">>, <<"]", "}">>}

\* the content is an object prefix that is valid once what it lacks is appended
Rebalances(content) ==
    /\ At(content, 1, <<"{">>)
    /\ ~json_loads(content).ok
    /\ \E closing \in ClosingRuns : json_loads(content \o closing).ok

\* the text is one block without end marker whose content rebalances
OneOpenBlock ==
    /\ Len(parts) = 1
    /\ parts[1].kind = "block" /\ ~parts[1].terminated
    /\ Rebalances(parts[1].content)

\* C11: for a start marker without end marker whose content is an object prefix
\* that is valid once its missing brackets and braces are appended, exactly one
\* record is returned and it is the one try_fix_truncated_json produces
C11_RepairedOnce ==
    extracted /\ OneOpenBlock =>
        /\ try_fix_truncated_json(parts[1].content).some
        /\ appliances = <<try_fix_truncated_json(parts[1].content).v>>

-----------------------------------------------------------------------------
(* database/queries.py and main.py: the appliances table of the session, a
   sequence of rows in the order of created_at *)

\* SQL LOWER on the words the names are made of
LowerWord == [w \in {"Fan", "fan"} |-> "fan"] @@ [w \in {"TV", "tv"} |-> "tv"]

\* a comparison of names that keeps the case, which C5 tells apart from SQL LOWER
KeepCase(name) == name

SqlLower(name) ==
    [i \in 1..Len(name) |-> IF name[i] \in DOMAIN LowerWord THEN LowerWord[name[i]] ELSE name[i]]

IsBlank(a) == a = " "
NotBlank(a) == a # " "

\* SQL TRIM: the blanks at both ends are removed
SqlTrim(name) ==
    IF \E j \in 1..Len(name) : name[j] # " "
    THEN SubSeq(name, FirstFrom(name, 1, NotBlank),
                CHOOSE j \in 1..Len(name) :
                    name[j] # " " /\ \A k \in (j + 1)..Len(name) : name[k] = " ")
    ELSE <<>>

\* LOWER(TRIM(name)) = LOWER(TRIM(%s)); a NULL on either side matches nothing
SameName(column, name) ==
    /\ column.t = "str" /\ name.t = "str"
    /\ SqlLower(SqlTrim(column.s)) = SqlLower(SqlTrim(name.s))

\* window[0], window[1] if window and len(window) >= 2 else None
WindowStart(window) == IF window.t = "list" /\ Len(window.l) >= 2 THEN window.l[1] ELSE NullV
WindowEnd(window)   == IF window.t = "list" /\ Len(window.l) >= 2 THEN window.l[2] ELSE NullV

session_id == StrV(<<"session">>)
user_id    == StrV(<<"user">>)
family_id  == StrV(<<"family">>)

K_session_id == <<"session_id">>
K_user_id    == <<"user_id">>
K_family_id  == <<"family_id">>

\* the row save_appliance inserts for a field map
Row(appliance_id, d) ==
    [appliance_id   |-> appliance_id,
     session_id     |-> Get(d, K_session_id, NullV),
     name           |-> Get(d, K_name, NullV),
     number         |-> Get(d, K_number, IntV(1)),
     power          |-> Get(d, K_power, NullV),
     func_time      |-> Get(d, K_func_time, NullV),
     num_windows    |-> Get(d, K_num_windows, IntV(1)),
     window_1_start |-> WindowStart(Get(d, K_window_1, NullV)),
     window_1_end   |-> WindowEnd(Get(d, K_window_1, NullV)),
     window_2_start |-> WindowStart(Get(d, K_window_2, NullV)),
     window_2_end   |-> WindowEnd(Get(d, K_window_2, NullV)),
     window_3_start |-> WindowStart(Get(d, K_window_3, NullV)),
     window_3_end   |-> WindowEnd(Get(d, K_window_3, NullV)),
     func_cycle     |-> Get(d, K_func_cycle, IntV(1)),
     fixed          |-> Get(d, K_fixed, StrV(<<"no">>)),
     occasional_use |-> Get(d, K_occasional_use, FloatV(10)),
     wd_we_type     |-> Get(d, K_wd_we_type, IntV(2))]

\* what the INSERT of save_appliance may do: the row is stored, or the database
\* raises and save_appliance raises again
InsertResults == {"ok", "raise"}

\* save_appliance(data): the table after it and whether a row came back
save_appliance(table, id, d, result) ==
    IF result = "ok"
    THEN [table |-> Append(table, Row(id, d)), saved |-> TRUE, raised |-> FALSE]
    ELSE [table |-> table, saved |-> FALSE, raised |-> TRUE]

\* WHERE session_id = %s AND LOWER(TRIM(name)) = LOWER(TRIM(%s)): the rows of the
\* session whose name matches, by index
Matching(table, name) ==
    {i \in 1..Len(table) : table[i].session_id = session_id /\ SameName(table[i].name, name)}

\* get_session_appliances(session_id)
get_session_appliances(table) == SelectSeq(table, LAMBDA row : row.session_id = session_id)

Max(S) == CHOOSE x \in S : \A y \in S : y <= x

\* DELETE FROM appliances WHERE appliance_id = %s
DeleteRow(table, appliance_id) ==
    SelectSeq(table, LAMBDA row : row.appliance_id # appliance_id)

\* what update_appliance leaves behind where a row of that name exists: the row
\* is deleted, then the field map without its update flag is saved
Replace(table, old_id, save, d) ==
    [table |-> save.table, found |-> TRUE, old_id |-> old_id,
     updated |-> save.saved, raised |-> save.raised, data |-> d]

ReplaceRow(table, id, d, result, old_id) ==
    Replace(table, old_id, save_appliance(DeleteRow(table, old_id), id, d, result), d)

Least(S) == CHOOSE x \in S : \A y \in S : x <= y

\* an update that replaces the oldest row of the name, which C26 tells apart from
\* the most recent one
FoundOldest(table, id, d, result, existing) ==
    IF existing # {}
    THEN ReplaceRow(table, id, Pop(d, K_update), result, table[Least(existing)].appliance_id)
    ELSE [table |-> table, found |-> FALSE, old_id |-> 0,
          updated |-> FALSE, raised |-> FALSE, data |-> d]

\* ORDER BY created_at DESC LIMIT 1: the most recent of the rows found
FoundRows(table, id, d, result, existing) ==
    IF existing # {}
    THEN ReplaceRow(table, id, Pop(d, K_update), result, table[Max(existing)].appliance_id)
    ELSE [table |-> table, found |-> FALSE, old_id |-> 0,
          updated |-> FALSE, raised |-> FALSE, data |-> d]

\* update_appliance(session_id, extracted_data): the most recent row of the name
update_appliance(table, id, d, result) ==
    FoundRows(table, id, d, result, Matching(table, Get(d, K_name, StrV(<<>>))))

\* a lookup by name alone, which C6 tells apart from appliance_exists
exists_by_name(table, name, window_1_start) == Matching(table, name) # {}

\* appliance_exists(session_id, name, window_1_start)
appliance_exists(table, name, window_1_start) ==
    IF window_1_start # NullV
    THEN \E i \in Matching(table, name) : table[i].window_1_start = window_1_start
    ELSE Matching(table, name) # {}

-----------------------------------------------------------------------------
(* main.py: chat_loop, the body of the loop over extracted_appliances *)

MAX_DUPLICATES == 5

Numbers == {"int", "float", "bool"}

\* len(x) of a value that has a length
SizeOf(v) ==
    CASE v.t = "list" -> Len(v.l)
      [] v.t = "dict" -> Len(v.kv)
      [] v.t = "str"  -> StrLen(v.s)
      [] OTHER -> 0

\* the exception the lines that print one entry end in, or "none":
\* extracted_data.get on what is not a dict, func_time / 60 on what is not a number,
\* len(window_1) on None or a number, and format_time_window on a window of two
\* items that are not whole numbers
PrintError(entry) ==
    IF entry.t # "dict" THEN "AttributeError"
    ELSE LET func_time == Get(entry, K_func_time, IntV(0))
             window_1  == Get(entry, K_window_1, ListV(<<>>))
         IN  IF func_time.t \notin Numbers THEN "TypeError"
             ELSE IF window_1.t \in Numbers \cup {"null"} THEN "TypeError"
             ELSE IF SizeOf(window_1) # 2 THEN "none"
             ELSE IF window_1.t = "dict" THEN "KeyError"
             ELSE IF window_1.t = "str" THEN "TypeError"
             ELSE IF window_1.l[1].t = "null" \/ window_1.l[2].t = "null" THEN "none"
             ELSE IF window_1.l[1].t \in {"int", "bool"} /\ window_1.l[2].t \in {"int", "bool"}
                  THEN "none"
             ELSE "TypeError"

\* what the loop body leaves behind for one entry; before is the table as the
\* body found it
Outcome(table, id, count, duplicates) ==
    [before |-> table,
     table |-> table, next_id |-> id, appliance_count |-> count,
     consecutive_duplicates |-> duplicates,
     extracted_data |-> NullV, is_update |-> FALSE,
     validation |-> [valid |-> FALSE, errors |-> <<>>, data |-> NullV, raised |-> FALSE],
     decision |-> "none", old_id |-> 0, saved |-> FALSE, error |-> "none",
     ending |-> FALSE]

\* a save that counts the entry whether or not a row came back, which C29 tells
\* apart from if saved: appliance_count += 1
CountedUnsaved(o, save, d) ==
    [o EXCEPT !.table = save.table,
              !.extracted_data = d,
              !.saved = save.saved,
              !.next_id = IF save.saved THEN o.next_id + 1 ELSE o.next_id,
              !.appliance_count = o.appliance_count + 1,
              !.error = IF save.raised THEN "DatabaseError" ELSE "none"]

\* the entry saved as new: the table, the count and what the save raised
SavedAsNew(o, save, d) ==
    [o EXCEPT !.table = save.table,
              !.extracted_data = d,
              !.saved = save.saved,
              !.next_id = IF save.saved THEN o.next_id + 1 ELSE o.next_id,
              !.appliance_count =
                  IF save.saved THEN o.appliance_count + 1 ELSE o.appliance_count,
              !.error = IF save.raised THEN "DatabaseError" ELSE "none"]

SaveAsNew(o, d, result) == SavedAsNew(o, save_appliance(o.table, o.next_id, d, result), d)

\* if is_update: update_appliance, and if not updated the entry is saved as new,
\* outside any try
AfterUpdate(o, u, result) ==
    IF u.raised THEN [o EXCEPT !.table = u.table, !.extracted_data = u.data,
                               !.error = "DatabaseError"]
    ELSE IF u.updated
    THEN [o EXCEPT !.table = u.table, !.extracted_data = u.data,
                   !.saved = TRUE, !.next_id = o.next_id + 1]
    ELSE SaveAsNew([o EXCEPT !.table = u.table], Pop(u.data, K_update), result)

UpdateBranch(o, u, result) ==
    AfterUpdate([o EXCEPT !.decision = IF u.found THEN "Update" ELSE "Create",
                          !.old_id = u.old_id],
                u, result)

\* elif appliance_exists: the duplicate is counted, and at MAX_DUPLICATES the loop
\* over the entries is left with break
DuplicateBranch(o) ==
    [o EXCEPT !.decision = "Skip",
              !.consecutive_duplicates = o.consecutive_duplicates + 1,
              !.ending = o.consecutive_duplicates + 1 >= MAX_DUPLICATES]

\* else: the save is inside try, what it raises is printed and the loop goes on
CreateBranch(o, result) ==
    [SaveAsNew([o EXCEPT !.decision = "Create", !.consecutive_duplicates = 0],
               Pop(o.extracted_data, K_update), result)
        EXCEPT !.error = "none"]

Reconcile(o, window_start, result) ==
    IF o.is_update
    THEN UpdateBranch(o, update_appliance(o.table, o.next_id, o.extracted_data, result),
                      result)
    ELSE IF appliance_exists(o.table, Get(o.extracted_data, K_name, StrV(<<>>)), window_start)
    THEN DuplicateBranch(o)
    ELSE CreateBranch(o, result)

\* the three ids are written into the entry
Stamped(d) ==
    Put(Put(Put(d, K_session_id, session_id), K_user_id, user_id), K_family_id, family_id)

\* if validation['valid'] or len(validation['errors']) <= 1
Check(o, result) ==
    IF ~Accepted(o.validation) THEN [o EXCEPT !.decision = "Rejected"]
    ELSE Reconcile([o EXCEPT !.extracted_data = Stamped(o.extracted_data)],
                   WindowStart(Get(o.extracted_data, K_window_1, ListV(<<>>))),
                   result)

Printed(o, result) ==
    IF PrintError(o.extracted_data) # "none"
    THEN [o EXCEPT !.error = PrintError(o.extracted_data)]
    ELSE Check([o EXCEPT !.is_update = Truthy(Get(o.extracted_data, K_update, BoolV(FALSE))),
                         !.validation = validate_appliance(o.extracted_data)],
               result)

\* the loop body for one entry of extracted_appliances; result is what the INSERT
\* does if the body comes to it.  decision is the branch taken: "Update" where
\* update_appliance found a row, "Create" where the entry is saved as new, "Skip"
\* for a duplicate, "Rejected" where validation failed
ProcessEntry(entry, table, id, count, duplicates, result) ==
    Printed([Outcome(table, id, count, duplicates) EXCEPT !.extracted_data = entry], result)

-----------------------------------------------------------------------------
(* main.py: chat_loop, what is shown of a response and the loop detection *)

\* re.sub(r'\[JSON_DATA_START\].*?\[JSON_DATA_END\]', '', text, flags=re.DOTALL)
RECURSIVE RemoveBlocks(_)
RemoveBlocks(t) ==
    LET i == FirstFrom(t, 1, IsStart)
        j == FirstFrom(t, i + 1, IsEnd)
    IN  IF i > Len(t) \/ j > Len(t) THEN t
        ELSE SubSeq(t, 1, i - 1) \o RemoveBlocks(SubSeq(t, j + 1, Len(t)))

\* re.sub(r'\[JSON_DATA_START\].*$', '', text, flags=re.DOTALL)
RemoveOpenBlock(t) == SubSeq(t, 1, FirstFrom(t, 1, IsStart) - 1)

IsClose(a) == a = "}"

\* \{[^}]*"name"[^}]*\} with the opening brace at i
NamedObjectAt(t, i) ==
    LET j == FirstFrom(t, i + 1, IsClose) IN
    /\ AtomAt(t, i) = "{"
    /\ j <= Len(t)
    /\ \E a \in (i + 1)..(j - 3) : At(t, a, <<"\"", "name", "\"">>)

\* re.sub(r'\{[^}]*"name"[^}]*\}', '', text)
RECURSIVE RemoveNamedObjects(_)
RemoveNamedObjects(t) ==
    IF \E i \in 1..Len(t) : NamedObjectAt(t, i)
    THEN LET i == CHOOSE i \in 1..Len(t) :
                     NamedObjectAt(t, i) /\ \A k \in 1..(i - 1) : ~NamedObjectAt(t, k)
         IN  SubSeq(t, 1, i - 1)
             \o RemoveNamedObjects(SubSeq(t, FirstFrom(t, i + 1, IsClose) + 1, Len(t)))
    ELSE t

clean_response(text) ==
    Strip(RemoveNamedObjects(Strip(RemoveOpenBlock(Strip(RemoveBlocks(text))))))

\* the characters re.split(r'[।?\n]', ...) splits at
IsSplit(a) == a \in {"?", "\n"}

\* re.split: the pieces between the split characters, in order
RECURSIVE Split(_)
Split(t) ==
    LET i == FirstFrom(t, 1, IsSplit) IN
    IF i > Len(t) THEN <<t>>
    ELSE <<SubSeq(t, 1, i - 1)>> \o Split(SubSeq(t, i + 1, Len(t)))

HasQuestionMark(piece) == \E i \in 1..Len(piece) : piece[i] = "?"

\* [s.strip() for s in re.split(...) if '?' in s]
Questions(clean) ==
    LET kept == SelectSeq(Split(clean), HasQuestionMark)
    IN  [i \in 1..Len(kept) |-> Strip(kept[i])]

-----------------------------------------------------------------------------
(* main.py: chat_loop, one user turn after the other *)

\* how many user messages are sent to the backend in one session
MaxTurns == 2

\* the field maps the backend writes into its blocks
Fields(name, power, func_time) ==
    <<Member(K_name, StrV(name)), Member(K_power, IntV(power)),
      Member(K_func_time, IntV(func_time))>>

WithWindow(start) == <<Member(K_window_1, Window(start, 600))>>

WithUpdate == <<Member(K_update, BoolV(TRUE))>>

JsonBlock(v) == <<JSON_DATA_START>> \o json_dumps(v) \o <<JSON_DATA_END>>

\* a block whose object lacks its closing brace
CutBlock(v) ==
    <<JSON_DATA_START>> \o SubSeq(json_dumps(v), 1, Len(json_dumps(v)) - 1)
    \o <<JSON_DATA_END>>

FanBlock == JsonBlock(DictV(Fields(<<"Fan">>, 10, 240) \o WithWindow(360)))

\* the texts the backend answers with
Responses ==
    { <<"Hi", "?">>,
      <<"Hi", "\n">> \o FanBlock,
      JsonBlock(DictV(Fields(<<" ", "fan">>, 10, 240) \o WithWindow(360))),
      JsonBlock(DictV(Fields(<<"Fan">>, 10, 240) \o WithWindow(480))),
      JsonBlock(DictV(Fields(<<"Fan">>, 10, 240))),
      CutBlock(DictV(Fields(<<"fan">>, 20, 240) \o WithWindow(480) \o WithUpdate)),
      CutBlock(DictV(Fields(<<"TV">>, 20, 240) \o WithWindow(480) \o WithUpdate)),
      JsonBlock(DictV(Fields(<<"Fan">>, 0, 0) \o WithWindow(360))),
      JsonBlock(DictV(Fields(<<"Fan">>, 0, 0) \o WithWindow(360) \o WithUpdate)),
      JsonBlock(ListV(<<IntV(1), IntV(2)>>)),
      JsonBlock(DictV(Fields(<<"TV">>, 10, 240) \o <<Member(K_window_1, NullV)>>)),
      FanBlock \o FanBlock \o FanBlock \o FanBlock \o FanBlock \o FanBlock }

\* how many user messages are answered in a session that is watched for loops
MaxReplies == 3

\* what the backend may answer there: a question, other words before the same
\* question and a block, words without a question, a block alone
Replies ==
    { <<"Hi", "?">>,
      <<"Fan", "\n", "Hi", "?">> \o FanBlock,
      <<"Fan">>,
      FanBlock }

\* how many user messages are answered in a session that is edited
MaxTold == 2

\* what the backend may answer there: a record that satisfies every rule, one
\* whose window ends before it starts, one whose func_cycle is its func_time
EditReplies ==
    { FanBlock,
      JsonBlock(DictV(Fields(<<"TV">>, 10, 240) \o <<Member(K_window_1, Window(600, 360))>>)),
      JsonBlock(DictV(Fields(<<"AC">>, 10, 240) \o WithWindow(360)
                      \o <<Member(K_func_cycle, IntV(240))>>)) }

\* what the backend may answer in a session whose records are updated: two
\* records of one name, a record of that name with blanks around it, and records
\* cut short that carry the update flag, for that name and for another
UpdateReplies ==
    { JsonBlock(DictV(Fields(<<"Fan">>, 10, 240) \o WithWindow(360)))
        \o JsonBlock(DictV(Fields(<<"Fan">>, 10, 240) \o WithWindow(480))),
      JsonBlock(DictV(Fields(<<" ", "fan">>, 10, 240) \o WithWindow(540))),
      CutBlock(DictV(Fields(<<"fan">>, 20, 240) \o WithWindow(480) \o WithUpdate)),
      CutBlock(DictV(Fields(<<"TV">>, 20, 240) \o WithWindow(480) \o WithUpdate)) }

\* extract_all_json of each of them
\* what the backend answers in SpecHistory, turn by turn
HistoryReplies == {<<"Ok", Digits[n + 1]>> : n \in 1..9}

Extracted ==
    [text \in Responses \cup Replies \cup EditReplies \cup UpdateReplies \cup HistoryReplies |->
        extract_all_json(text)]

user_message == <<"Fan">>
greeting     == <<"Hi">>

\* save_message(session_id, user_id, role, message_text, extracted_data): the
\* row it inserts; message_order is one more than the highest of the session
save_message(table, role, message_text, extracted_data) ==
    Append(table,
           [message_order  |-> IF table = <<>> THEN 1
                               ELSE Max({table[i].message_order : i \in 1..Len(table)}) + 1,
            role           |-> role,
            message_text   |-> message_text,
            extracted_data |-> IF Truthy(extracted_data)
                               THEN json_dumps(extracted_data) ELSE <<>>])

\* last_response = None, and a text it holds
NoResponse     == [some |-> FALSE, text |-> <<>>]
Shown(text)    == [some |-> TRUE, text |-> text]

\* chat_loop at its first prompt, the appliances table holding table
ChatStarted(table, id) ==
    /\ pc = "input"
    /\ turns = 0
    /\ conversation_context = save_message(<<>>, "assistant", greeting, NullV)
    /\ appliances_table = table
    /\ next_id = id
    /\ response = <<>>
    /\ extracted_appliances = <<>>
    /\ idx = 0
    /\ outcome = Outcome(table, id, 0, 0)
    /\ appliance_count = 0
    /\ consecutive_duplicates = 0
    /\ last_response = NoResponse
    /\ last_questions_asked = <<>>
    /\ ending = FALSE
    /\ previous_response = <<>>
    /\ loop_detected = "none"
    /\ IdleValidate
    /\ IdleExtract

Started(table, id) == ChatStarted(table, id) /\ IdleOther

Init == Started(<<>>, 1)

\* an exit keyword: the loop is left
Quit ==
    /\ pc = "input"
    /\ pc' = "ended"
    /\ UNCHANGED <<turns, conversation_context, appliances_table, next_id, response,
                   extracted_appliances, idx, outcome, appliance_count,
                   consecutive_duplicates, last_response, last_questions_asked, ending,
                   previous_response, loop_detected>>
    /\ UNCHANGED <<vvars, xvars, ovars>>

\* a message for the backend whose call fails: the message is saved, the loop
\* goes back to input
CallFails ==
    /\ pc = "input"
    /\ turns < MaxTurns
    /\ turns' = turns + 1
    /\ conversation_context' = save_message(conversation_context, "user", user_message, NullV)
    /\ UNCHANGED <<pc, appliances_table, next_id, response, extracted_appliances, idx,
                   outcome, appliance_count, consecutive_duplicates, last_response,
                   last_questions_asked, ending, previous_response, loop_detected>>
    /\ UNCHANGED <<vvars, xvars, ovars>>

\* a message for the backend, answered with text: the message is saved and the
\* records of the response are extracted
Answered(text) ==
    /\ pc = "input"
    /\ turns' = turns + 1
    /\ conversation_context' = save_message(conversation_context, "user", user_message, NullV)
    /\ response' = text
    /\ previous_response' = response
    /\ loop_detected' = "none"
    /\ extracted_appliances' = Extracted[text]
    /\ idx' = 1
    /\ pc' = IF Extracted[text] # <<>> THEN "records" ELSE "shown"
    /\ UNCHANGED <<appliances_table, next_id, outcome, appliance_count,
                   consecutive_duplicates, last_response, last_questions_asked, ending>>
    /\ UNCHANGED <<vvars, xvars, ovars>>

Respond(text) == turns < MaxTurns /\ Answered(text)

Reply(text) == turns < MaxReplies /\ Answered(text)

Told(text) == turns < MaxTold /\ Answered(text)

\* what one pass of the loop leaves in the variables of chat_loop
Processed(o) ==
    /\ outcome' = o
    /\ appliances_table' = o.table
    /\ next_id' = o.next_id
    /\ appliance_count' = o.appliance_count
    /\ consecutive_duplicates' = o.consecutive_duplicates
    /\ ending' = (ending \/ o.ending)
    /\ pc' = IF o.error # "none" THEN "crashed"
             ELSE IF o.ending \/ idx = Len(extracted_appliances) THEN "shown"
             ELSE "records"
    /\ idx' = IF o.error = "none" /\ ~o.ending /\ idx < Len(extracted_appliances)
              THEN idx + 1 ELSE idx

\* one pass of the loop over extracted_appliances; an exception leaves chat_loop,
\* break and the end of the list leave the loop
ProcessRecord(result) ==
    /\ pc = "records"
    /\ Processed(ProcessEntry(extracted_appliances[idx], appliances_table, next_id,
                              appliance_count, consecutive_duplicates, result))
    /\ UNCHANGED <<turns, conversation_context, response, extracted_appliances,
                   last_response, last_questions_asked, previous_response, loop_detected>>
    /\ UNCHANGED <<vvars, xvars, ovars>>

\* extracted_appliances[-1] if extracted_appliances else None; the entries the
\* loop came to are the objects it changed
LastExtracted ==
    IF extracted_appliances = <<>> THEN NullV
    ELSE IF idx = Len(extracted_appliances) THEN outcome.extracted_data
    ELSE extracted_appliances[Len(extracted_appliances)]

\* clean_response == last_response
Repeated(clean) == clean # <<>> /\ last_response.some /\ clean = last_response.text

\* questions and questions == last_questions_asked
Asked(clean, questions) ==
    clean # <<>> /\ ~Repeated(clean) /\ questions # <<>> /\ questions = last_questions_asked

\* the loop detection, and the response saved unless it ended in continue
Detected(clean, questions) ==
    /\ last_response' = IF Repeated(clean) THEN NoResponse
                        ELSE IF clean # <<>> /\ ~Asked(clean, questions) THEN Shown(clean)
                        ELSE last_response
    /\ last_questions_asked' = IF Repeated(clean) THEN last_questions_asked
                               ELSE IF Asked(clean, questions) THEN <<>>
                               ELSE IF clean # <<>> THEN questions
                               ELSE last_questions_asked
    /\ loop_detected' = IF Repeated(clean) THEN "Loop detected"
                        ELSE IF Asked(clean, questions) THEN "Same questions again"
                        ELSE "none"
    /\ conversation_context' =
           IF Repeated(clean) \/ Asked(clean, questions) THEN conversation_context
           ELSE save_message(conversation_context, "assistant", response, LastExtracted)

DetectLoop(clean) == Detected(clean, Questions(clean))

\* the rest of the turn: loop detection, then the response is saved with the last
\* entry of extracted_appliances
ShowResponse ==
    /\ pc = "shown"
    /\ pc' = "input"
    /\ DetectLoop(clean_response(response))
    /\ UNCHANGED <<turns, appliances_table, next_id, response, extracted_appliances, idx,
                   outcome, appliance_count, consecutive_duplicates, ending,
                   previous_response>>
    /\ UNCHANGED <<vvars, xvars, ovars>>

Next ==
    \/ Quit
    \/ CallFails
    \/ \E text \in Responses : Respond(text)
    \/ \E result \in InsertResults : ProcessRecord(result)
    \/ ShowResponse

Spec == Init /\ [][Next]_vars

\* a session watched for loops: its responses are drawn from Replies
NextLoop ==
    \/ Quit
    \/ \E text \in Replies : Reply(text)
    \/ \E result \in InsertResults : ProcessRecord(result)
    \/ ShowResponse

SpecLoop == Init /\ [][NextLoop]_vars

-----------------------------------------------------------------------------
(* Properties of the chat loop *)

\* the loop body has dealt with an entry and come to its validation
Reached == outcome.decision # "none"

\* a name trimmed and in lower case
Lowered(a) == CASE a = "Fan" -> "fan" [] a = "TV" -> "tv" [] OTHER -> a

Normalized(name) == [i \in 1..Len(Strip(name)) |-> Lowered(Strip(name)[i])]

CandidateName == Get(outcome.extracted_data, K_name, StrV(<<>>)).s

\* the rows the loop body found whose name is the candidate's
NamedRows ==
    {i \in 1..Len(outcome.before) :
        /\ outcome.before[i].session_id = session_id
        /\ outcome.before[i].name.t = "str"
        /\ Normalized(outcome.before[i].name.s) = Normalized(CandidateName)}

\* the start of the candidate's first window, NullV where it has none
CandidateStart ==
    IF /\ Get(outcome.extracted_data, K_window_1, NullV).t = "list"
       /\ Len(Get(outcome.extracted_data, K_window_1, NullV).l) >= 2
    THEN Get(outcome.extracted_data, K_window_1, NullV).l[1]
    ELSE NullV

\* the row the candidate makes is in the table, with an id the loop body did not find
CandidateStored ==
    \E i \in 1..Len(appliances_table) :
        /\ appliances_table[i] = Row(appliances_table[i].appliance_id, outcome.extracted_data)
        /\ \A j \in 1..Len(outcome.before) :
              outcome.before[j].appliance_id # appliances_table[i].appliance_id

\* the row update_appliance found is still in the table
OldRowKept ==
    \E i \in 1..Len(outcome.before) :
        /\ outcome.before[i].appliance_id = outcome.old_id
        /\ \E j \in 1..Len(appliances_table) : appliances_table[j] = outcome.before[i]

\* C1: once the consecutive duplicate-skip counter has reached MAX_DUPLICATES and
\* the end of the conversation is announced, the loop, back at its prompt, accepts
\* no further user turn and writes nothing more to the tables
C1_CeilingEndsSession ==
    [][ending /\ pc = "input" =>
                 /\ turns' = turns
                 /\ conversation_context' = conversation_context
                 /\ appliances_table' = appliances_table]_vars

\* C2: a candidate for which validation reports two or more violations is never
\* persisted, neither inserted nor used to replace a row, with or without the
\* update flag
C2_RejectedNeverPersisted ==
    Reached /\ Len(outcome.validation.errors) >= 2 =>
        /\ outcome.decision = "Rejected"
        /\ appliances_table = outcome.before

C2_Witness ==
    /\ Reached
    /\ Len(outcome.validation.errors) >= 2
    /\ Truthy(Get(outcome.extracted_data, K_update, BoolV(FALSE)))
    /\ NamedRows # {}
    /\ appliances_table = outcome.before

\* C4: after update_appliance was called for a candidate whose name matches a
\* row, either the old row is gone and the new one is stored, or the old row is
\* still there
C4_UpdateIsOneUnit ==
    outcome.decision = "Update" =>
        \/ ~OldRowKept /\ CandidateStored
        \/ OldRowKept

\* C5: an accepted candidate with the update flag replaces the row of its
\* normalized name, whatever the windows of the two, and is inserted as new where
\* there is no such row
C5_UpdateByName ==
    Reached /\ outcome.is_update /\ Accepted(outcome.validation) =>
        IF NamedRows # {}
        THEN /\ outcome.decision = "Update"
             /\ outcome.old_id \in {outcome.before[i].appliance_id : i \in NamedRows}
             /\ outcome.error = "none" => ~OldRowKept /\ CandidateStored
        ELSE /\ outcome.decision = "Create"
             /\ outcome.error = "none" =>
                   /\ CandidateStored
                   /\ Len(appliances_table) = Len(outcome.before) + 1

C5_Witness ==
    /\ outcome.is_update /\ Accepted(outcome.validation)
    /\ outcome.decision = "Update"
    /\ \E i \in NamedRows :
          /\ outcome.before[i].appliance_id = outcome.old_id
          /\ outcome.before[i].window_1_start # CandidateStart
          /\ outcome.before[i].name.s # CandidateName
    /\ ~OldRowKept /\ CandidateStored

\* C6: an accepted candidate without the update flag is skipped, and the table left
\* as it is, where a row has its normalized name and the start of its first
\* window, or its normalized name alone when the candidate has no first window;
\* otherwise it is created
C6_SkipDuplicate ==
    Reached /\ ~outcome.is_update /\ Accepted(outcome.validation) =>
        IF \E i \in NamedRows :
              CandidateStart = NullV \/ outcome.before[i].window_1_start = CandidateStart
        THEN outcome.decision = "Skip" /\ appliances_table = outcome.before
        ELSE outcome.decision = "Create"

C6_Witness ==
    /\ ~outcome.is_update /\ Accepted(outcome.validation)
    /\ outcome.decision = "Skip"
    /\ CandidateStart = IntV(360)
    /\ \E i \in NamedRows : outcome.before[i].name.s # CandidateName
    /\ appliances_table = outcome.before /\ appliances_table # <<>>

\* the entry the loop body was given cannot be turned into a record: it is not a
\* field map, or its first window is null
Malformed ==
    \/ outcome.extracted_data.t # "dict"
    \/ /\ Has(outcome.extracted_data, K_window_1)
       /\ Get(outcome.extracted_data, K_window_1, NullV) = NullV

\* C9: where a block cannot be turned into a record, nothing is persisted for it
\* and the chat loop goes on to the next user turn
C9_MalformedBlockSkipped ==
    idx >= 1 /\ Malformed => pc # "crashed" /\ appliances_table = outcome.before

-----------------------------------------------------------------------------
(* services/context_service.py: analyze_time_windows over the rows of the
   session; the day is a timeline of 48 blocks of 30 minutes *)

Blocks == 0..47

\* the windows of one row that have both a start and an end, window_1 to window_3
RowWindows(row) ==
    SelectSeq(<<[name |-> row.name, start |-> row.window_1_start, end |-> row.window_1_end],
                [name |-> row.name, start |-> row.window_2_start, end |-> row.window_2_end],
                [name |-> row.name, start |-> row.window_3_start, end |-> row.window_3_end]>>,
              LAMBDA w : w.start # NullV /\ w.end # NullV)

\* range(start_block, min(end_block + 1, 48)) of a window
MarkedBlocks(w) == (w.start.n \div 30)..(Min((w.end.n \div 30) + 1, 48) - 1)

\* timeline[block] for a block of the range: a negative index counts from the
\* end of the list
Indexed(block) == IF block < 0 THEN block + 48 ELSE block

\* timeline[block] raises IndexError for a block of the range before -48
OutOfTimeline(w) == \E b \in MarkedBlocks(w) : b < -48

Marks(w, block) == \E b \in MarkedBlocks(w) : Indexed(b) = block

\* the timeline after every window of every row has marked its blocks
Timeline(windows) ==
    [block \in Blocks |->
        [occupied   |-> \E k \in 1..Len(windows) : Marks(windows[k], block),
         appliances |-> SelectSeq(windows, LAMBDA w : Marks(w, block))]]

\* minutes_to_time: hours and minutes, each printed with two digits
minutes_to_time(minutes) == <<minutes \div 60, minutes % 60>>

BlockNames(entry) == {entry.appliances[k].name : k \in 1..Len(entry.appliances)}

\* the first block from i on that is occupied, or is not, as wanted; 48 if none
FirstBlock(timeline, i, wanted) ==
    IF \E j \in i..47 : timeline[j].occupied = wanted
    THEN CHOOSE j \in i..47 :
             /\ timeline[j].occupied = wanted
             /\ \A k \in i..(j - 1) : timeline[k].occupied # wanted
    ELSE 48

\* the period the loop appends for the occupied blocks first..(after - 1): it
\* starts with the first of them, and each further one moves its end and adds
\* its names
Period(timeline, first, after) ==
    [start |-> first * 30, end |-> after * 30,
     start_time |-> minutes_to_time(first * 30),
     end_time |-> minutes_to_time(after * 30),
     appliances |-> UNION {BlockNames(timeline[block]) : block \in first..(after - 1)}]

\* the loop over the timeline, one period at a time: from the first occupied
\* block to the block that ends the period, or to the end of the timeline,
\* where the last period is added
RECURSIVE OccupiedFrom(_, _)
PeriodThenRest(timeline, first, after) ==
    <<Period(timeline, first, after)>>
    \o OccupiedFrom(timeline, FirstBlock(timeline, after, TRUE))

OccupiedFrom(timeline, first) ==
    IF first = 48 THEN <<>>
    ELSE PeriodThenRest(timeline, first, FirstBlock(timeline, first, FALSE))

\* one available window; duration_hours is kept in tenths of an hour
Available(start, end) ==
    [start |-> start, end |-> end,
     start_time |-> minutes_to_time(start), end_time |-> minutes_to_time(end),
     duration_hours |-> ((end - start) * 10) \div 60]

\* the gaps of at least an hour between consecutive occupied periods
RECURSIVE GapsFrom(_, _)
GapsFrom(occupied, i) ==
    IF i > Len(occupied) - 1 THEN <<>>
    ELSE (IF occupied[i + 1].start - occupied[i].end >= 60
          THEN <<Available(occupied[i].end, occupied[i + 1].start)>>
          ELSE <<>>) \o GapsFrom(occupied, i + 1)

\* available.insert(0, ...) for the gap at the start of the day
HeadGap(occupied) ==
    IF occupied = <<>> THEN <<Available(0, 1440)>>
    ELSE IF occupied[1].start > 60 /\ occupied[1].start - 0 >= 60
    THEN <<Available(0, occupied[1].start)>>
    ELSE <<>>

\* available.append(...) for the gap at the end of the day
TailGap(occupied) ==
    IF occupied = <<>> THEN <<Available(0, 1440)>>
    ELSE IF occupied[Len(occupied)].end < 1380 /\ 1440 - occupied[Len(occupied)].end >= 60
    THEN <<Available(occupied[Len(occupied)].end, 1440)>>
    ELSE <<>>

AvailableOf(occupied) == HeadGap(occupied) \o GapsFrom(occupied, 1) \o TailGap(occupied)

Analyzed(occupied) ==
    [occupied |-> occupied, available |-> AvailableOf(occupied), analyzed |-> TRUE,
     raised |-> FALSE]

Occupied(timeline) == OccupiedFrom(timeline, FirstBlock(timeline, 0, TRUE))

\* the IndexError leaves analyze_time_windows and build_smart_context
IndexError == [occupied |-> <<>>, available |-> <<>>, analyzed |-> TRUE, raised |-> TRUE]

Analysis(windows) ==
    IF \E k \in 1..Len(windows) : OutOfTimeline(windows[k]) THEN IndexError
    ELSE Analyzed(Occupied(Timeline(windows)))

analyze_time_windows(rows) == Analysis(FlatMap(RowWindows, rows))

-----------------------------------------------------------------------------
(* The schedule of a session: rows are saved one by one, then
   analyze_time_windows is applied to what get_session_appliances returns *)

\* how many rows the session holds
MaxRows == 2

NoWindows == <<NullV, NullV>>

\* the first and second window of a row, in minutes from midnight
WindowChoices ==
    { <<Window(540, 600), NullV>>, <<Window(600, 660), NullV>>,
      <<Window(60, 600), NullV>>, <<Window(600, 1380), NullV>>,
      <<Window(600, 1350), NullV>>, <<Window(0, 1440), NullV>>,
      <<Window(90, 135), NullV>>, <<Window(60, 120), Window(1320, 1380)>>,
      NoWindows }

Names == {<<"Fan">>, <<"TV">>}

InitSchedule ==
    /\ IdleSchedule
    /\ IdleMessages
    /\ IdleEdit
    /\ IdleClean
    /\ IdleHistory
    /\ IdleValidate
    /\ IdleExtract
    /\ IdleChat

SaveRow(name, windows) ==
    /\ ~time_windows.analyzed
    /\ Len(session_appliances) < MaxRows
    /\ session_appliances' =
           Append(session_appliances,
                  Row(Len(session_appliances) + 1,
                      DictV(Fields(name, 10, 240)
                            \o <<Member(K_window_1, windows[1]),
                                 Member(K_window_2, windows[2])>>)))
    /\ UNCHANGED <<time_windows, vvars, xvars, cvars, mvars, evars, kvars, hvars>>

Analyze ==
    /\ ~time_windows.analyzed
    /\ time_windows' = analyze_time_windows(session_appliances)
    /\ UNCHANGED <<session_appliances, vvars, xvars, cvars, mvars, evars, kvars, hvars>>

NextSchedule ==
    \/ \E name \in Names : \E windows \in WindowChoices : SaveRow(name, windows)
    \/ Analyze

SpecSchedule == InitSchedule /\ [][NextSchedule]_vars

\* the bounds of the intervals of a list, in its order
Bounds(intervals) == [k \in 1..Len(intervals) |-> <<intervals[k].start, intervals[k].end>>]

\* the only window of a row, as start and end
OnlyWindow(row) == <<row.window_1_start.n, row.window_1_end.n>>

HasOneWindow(row) == Len(RowWindows(row)) = 1 /\ row.window_1_start # NullV

\* C12: two rows whose windows [a,b) and [b,c) meet at a multiple of 30 give one
\* occupied interval, whose bounds are exactly [a,c)
C12_CoverageMerge ==
    /\ time_windows.analyzed
    /\ Len(session_appliances) = 2
    /\ HasOneWindow(session_appliances[1]) /\ HasOneWindow(session_appliances[2])
    /\ OnlyWindow(session_appliances[1])[2] = OnlyWindow(session_appliances[2])[1]
    /\ \A r \in 1..2 : \A k \in 1..2 : OnlyWindow(session_appliances[r])[k] % 30 = 0
    => Bounds(time_windows.occupied) =
           <<<<OnlyWindow(session_appliances[1])[1], OnlyWindow(session_appliances[2])[2]>>>>

\* C13: with no rows, or rows without windows, the occupied list is empty and
\* the free list is the one interval [0,1440]
C13_EmptyDayIsFree ==
    /\ time_windows.analyzed
    /\ \A r \in 1..Len(session_appliances) : RowWindows(session_appliances[r]) = <<>>
    => /\ time_windows.occupied = <<>>
       /\ Bounds(time_windows.available) = <<<<0, 1440>>>>

\* a list of bounds in non-decreasing start order, no two of them overlapping
Ordered(bounds) ==
    \A j, k \in 1..Len(bounds) : j < k =>
        /\ bounds[j][1] <= bounds[k][1]
        /\ bounds[j][2] <= bounds[k][1]

Overlap(x, y) == x[1] < y[2] /\ y[1] < x[2]

\* C14: the occupied list and the free list are each in non-decreasing start
\* order and pairwise non-overlapping, and no free interval overlaps an occupied one
C14_OrderedDisjoint ==
    time_windows.analyzed =>
        /\ Ordered(Bounds(time_windows.occupied))
        /\ Ordered(Bounds(time_windows.available))
        /\ \A j \in 1..Len(time_windows.available) :
           \A k \in 1..Len(time_windows.occupied) :
               ~Overlap(Bounds(time_windows.available)[j], Bounds(time_windows.occupied)[k])

\* the unoccupied runs of the day around and between the occupied intervals: the
\* head gap, the gaps between neighbours, the tail gap
Runs(occupied) ==
    [k \in 1..(Len(occupied) + 1) |->
        <<IF k = 1 THEN 0 ELSE occupied[k - 1][2],
          IF k = Len(occupied) + 1 THEN 1440 ELSE occupied[k][1]>>]

LongEnough(run) == run[2] - run[1] >= 60

\* C15: where some interval is occupied, the free list is exactly the unoccupied
\* runs of at least 60 minutes, a head or tail gap of exactly 60 minutes included
C15_FreeRunsOfAnHour ==
    time_windows.analyzed /\ time_windows.occupied # <<>> =>
        Bounds(time_windows.available) =
            SelectSeq(Runs(Bounds(time_windows.occupied)), LongEnough)

-----------------------------------------------------------------------------
(* main.py: ensure_alternating_messages; a message is a role and a content *)

Message(role, content) == [role |-> role, content |-> content]

\* m.get('content', '').strip() is not empty
HasContent(m) == Strip(m.content) # <<>>

\* a leading assistant message kept behind a filler user message, which C30
\* tells apart from dropping it
PadLeading(ms) ==
    IF ms # <<>> /\ ms[1].role = "assistant"
    THEN <<[role |-> "user", content |-> <<"Continue", ".">>]>> \o ms
    ELSE ms

\* while messages and messages[0]['role'] == 'assistant': messages.pop(0)
RECURSIVE DropLeading(_)
DropLeading(ms) ==
    IF ms # <<>> /\ ms[1].role = "assistant" THEN DropLeading(Tail(ms)) ELSE ms

\* one step of the merging loop: a message of the role of the last merged one is
\* added to its content after a newline, any other is appended
MergeOne(merged, msg) ==
    IF msg.role = merged[Len(merged)].role
    THEN [merged EXCEPT ![Len(merged)].content = @ \o <<"\n">> \o msg.content]
    ELSE Append(merged, msg)

RECURSIVE MergeAll(_, _)
MergeAll(merged, rest) ==
    IF rest = <<>> THEN merged ELSE MergeAll(MergeOne(merged, Head(rest)), Tail(rest))

\* the trailing turns are kept as they are
KeepTrailing(merged) == merged

\* while merged and merged[-1]['role'] == 'assistant': merged.pop()
RECURSIVE DropTrailing(_)
DropTrailing(merged) ==
    IF merged # <<>> /\ merged[Len(merged)].role = "assistant"
    THEN DropTrailing(SubSeq(merged, 1, Len(merged) - 1))
    ELSE merged

Other(role) == IF role = "user" THEN "assistant" ELSE "user"

\* the last loop: a message of the expected role is taken; before a user message
\* that comes when the assistant is expected, and before an assistant message
\* that comes when the user is expected, a filler message is put
RECURSIVE FixFrom(_, _, _)
FixFrom(fixed, expected_role, merged) ==
    IF merged = <<>> THEN fixed
    ELSE IF Head(merged).role = expected_role
    THEN FixFrom(Append(fixed, Head(merged)), Other(expected_role), Tail(merged))
    ELSE IF Head(merged).role = "user" /\ expected_role = "assistant"
    THEN FixFrom(fixed \o <<Message("assistant", <<"Okay", ",", " ", "noted", ".">>),
                            Head(merged)>>,
                 "assistant", Tail(merged))
    ELSE IF Head(merged).role = "assistant" /\ expected_role = "user"
    THEN FixFrom(fixed \o <<Message("user", <<"Continue", ".">>), Head(merged)>>,
                 "user", Tail(merged))
    ELSE FixFrom(fixed, expected_role, Tail(merged))

\* what follows the removal of the leading assistant messages
MergedAndFixed(ms) ==
    IF ms = <<>> THEN <<>>
    ELSE FixFrom(<<>>, "user", DropTrailing(MergeAll(<<ms[1]>>, Tail(ms))))

ensure_alternating_messages(ms) ==
    MergedAndFixed(DropLeading(SelectSeq(ms, HasContent)))

-----------------------------------------------------------------------------
(* The turns of a conversation, written one by one, then given to
   ensure_alternating_messages *)

\* how many turns the history holds
MaxMessages == 4

Roles == {"user", "assistant"}

TurnContents == {<<" ">>, <<"Hi">>, <<"Fan">>}

InitMessages ==
    /\ IdleMessages
    /\ IdleSchedule
    /\ IdleEdit
    /\ IdleClean
    /\ IdleHistory
    /\ IdleValidate
    /\ IdleExtract
    /\ IdleChat

AddMessage(role, content) ==
    /\ ~alternating.done
    /\ Len(messages) < MaxMessages
    /\ messages' = Append(messages, Message(role, content))
    /\ UNCHANGED <<alternating, vvars, xvars, cvars, svars, evars, kvars, hvars>>

EnsureAlternating ==
    /\ ~alternating.done
    /\ alternating' = [fixed |-> ensure_alternating_messages(messages), done |-> TRUE]
    /\ UNCHANGED <<messages, vvars, xvars, cvars, svars, evars, kvars, hvars>>

NextMessages ==
    \/ \E role \in Roles : \E content \in TurnContents : AddMessage(role, content)
    \/ EnsureAlternating

SpecMessages == InitMessages /\ [][NextMessages]_vars

\* a content that is empty or made of blanks and newlines only
Blank(content) == \A k \in 1..Len(content) : content[k] \in {" ", "\n"}

\* C16: the output of ensure_alternating_messages is empty, or starts with a user
\* turn, strictly alternates between user and assistant, ends with a user turn and
\* has no turn whose content is empty or blank
C16_Alternating ==
    alternating.done /\ alternating.fixed # <<>> =>
        /\ alternating.fixed[1].role = "user"
        /\ \A k \in 1..(Len(alternating.fixed) - 1) :
              alternating.fixed[k].role # alternating.fixed[k + 1].role
        /\ alternating.fixed[Len(alternating.fixed)].role = "user"
        /\ \A k \in 1..Len(alternating.fixed) :
              /\ alternating.fixed[k].role \in Roles
              /\ ~Blank(alternating.fixed[k].content)

C16_Witness ==
    /\ alternating.done
    /\ Len(messages) = 4
    /\ messages[1].role = "assistant"
    /\ messages[4].role = "assistant"
    /\ messages[2].role = messages[3].role
    /\ Blank(messages[3].content)
    /\ Len(alternating.fixed) = 1

-----------------------------------------------------------------------------
(* Properties of the loop detection *)

\* a turn is over and the response before its own is known
TwoResponses == pc \in {"input", "ended"} /\ previous_response # <<>>

\* C17: a response whose cleaned text is that of the response just before it
\* signals a loop, the third and later ones of a run of identical responses as
\* well as the second
C17_RepeatSignalsLoop ==
    /\ TwoResponses
    /\ clean_response(response) # <<>>
    /\ clean_response(response) = clean_response(previous_response)
    => loop_detected = "Loop detected"

\* where a sentence ending at position i begins: after the question mark or
\* newline before it
SentenceStart(t, i) ==
    IF \E j \in 1..(i - 1) : t[j] \in {"?", "\n"}
    THEN 1 + CHOOSE j \in 1..(i - 1) :
                 t[j] \in {"?", "\n"} /\ \A k \in (j + 1)..(i - 1) : t[k] \notin {"?", "\n"}
    ELSE 1

\* the sentences of a text that end in a question mark
QuestionSentences(t) ==
    {Strip(SubSeq(t, SentenceStart(t, i), i)) : i \in {j \in 1..Len(t) : t[j] = "?"}}

\* C18: a response that differs as text from the one before it and has the same
\* non-empty set of sentences with a question mark signals a loop
C18_SameQuestionsSignalLoop ==
    /\ TwoResponses
    /\ clean_response(response) # clean_response(previous_response)
    /\ QuestionSentences(clean_response(response)) # {}
    /\ QuestionSentences(clean_response(response)) =
           QuestionSentences(clean_response(previous_response))
    => loop_detected # "none"

-----------------------------------------------------------------------------
(* appliance_editor.py: texts typed at the prompts are sequences of atoms, a
   digit, a sign, a point or a colon each being an atom of its own *)

\* str.lower() on the atoms the prompts are given
LowerAtom ==
    [a \in {"PM", "pm"} |-> "pm"] @@ [a \in {"AM", "am"} |-> "am"] @@
    [a \in {"Edit", "edit"} |-> "edit"] @@ [a \in {"Yes", "yes"} |-> "yes"]

PyLower(text) ==
    [i \in 1..Len(text) |-> IF text[i] \in DOMAIN LowerAtom THEN LowerAtom[text[i]] ELSE text[i]]

\* text.replace(a, '')
Without(text, atoms) == SelectSeq(text, LAMBDA a : a \notin atoms)

\* text.split(sep): the pieces between the separators, empty pieces kept
RECURSIVE SplitAt(_, _)
SplitAt(text, sep) ==
    IF \E i \in 1..Len(text) : text[i] = sep
    THEN <<SubSeq(text, 1, FirstFrom(text, 1, LAMBDA a : a = sep) - 1)>>
         \o SplitAt(SubSeq(text, FirstFrom(text, 1, LAMBDA a : a = sep) + 1, Len(text)), sep)
    ELSE <<text>>

\* int(text): [ok, n]; ok is FALSE where int() raises ValueError
IntOfText(text) ==
    IF AllDigits(text) THEN [ok |-> TRUE, n |-> DigitsVal(text)]
    ELSE IF text # <<>> /\ Head(text) = "-" /\ AllDigits(Tail(text))
    THEN [ok |-> TRUE, n |-> 0 - DigitsVal(Tail(text))]
    ELSE [ok |-> FALSE, n |-> 0]

Power10(k) == IF k = 0 THEN 1 ELSE IF k = 1 THEN 10 ELSE 100

\* float(text) of digits with at most two decimals as the fraction num / den;
\* ok is FALSE where float() raises ValueError
FloatOfText(text) ==
    LET pieces == SplitAt(text, ".")
        whole  == IntOfText(pieces[1])
    IN  IF Len(pieces) = 1 THEN [ok |-> whole.ok, num |-> whole.n, den |-> 1]
        ELSE IF Len(pieces) = 2 /\ whole.ok /\ AllDigits(pieces[2]) /\ Len(pieces[2]) <= 2
        THEN [ok |-> TRUE,
              num |-> IF Head(text) = "-"
                      THEN whole.n * Power10(Len(pieces[2])) - DigitsVal(pieces[2])
                      ELSE whole.n * Power10(Len(pieces[2])) + DigitsVal(pieces[2]),
              den |-> Power10(Len(pieces[2]))]
        ELSE [ok |-> FALSE, num |-> 0, den |-> 1]

\* int(x) of a fraction: towards zero
Truncated(num, den) == IF num >= 0 THEN num \div den ELSE 0 - ((0 - num) \div den)

\* the hours and minutes parse_time_input reads from the text without am and pm
ClockOf(text) ==
    IF \E i \in 1..Len(text) : text[i] = ":"
    THEN IF Len(SplitAt(text, ":")) >= 2
         THEN [ok |-> IntOfText(SplitAt(text, ":")[1]).ok /\ IntOfText(SplitAt(text, ":")[2]).ok,
               hours |-> IntOfText(SplitAt(text, ":")[1]).n,
               minutes |-> IntOfText(SplitAt(text, ":")[2]).n]
         ELSE [ok |-> FALSE, hours |-> 0, minutes |-> 0]
    ELSE IF Len(text) = 4 /\ AllDigits(text)
    THEN [ok |-> TRUE, hours |-> DigitsVal(SubSeq(text, 1, 2)),
          minutes |-> DigitsVal(SubSeq(text, 3, 4))]
    ELSE [ok |-> IntOfText(text).ok, hours |-> IntOfText(text).n, minutes |-> 0]

HoursOf(clock, is_am, is_pm) ==
    IF is_am /\ (IF is_pm /\ clock.hours < 12 THEN clock.hours + 12 ELSE clock.hours) = 12
    THEN 0
    ELSE IF is_pm /\ clock.hours < 12 THEN clock.hours + 12 ELSE clock.hours

MinutesOfDay(clock, hours) ==
    IF clock.ok /\ 0 <= hours /\ hours <= 24 /\ 0 <= clock.minutes /\ clock.minutes < 60
    THEN Some(IntV(hours * 60 + clock.minutes))
    ELSE None

TimeOf(text, is_am, is_pm) ==
    MinutesOfDay(ClockOf(Without(text, {"am", "pm"})),
                 HoursOf(ClockOf(Without(text, {"am", "pm"})), is_am, is_pm))

\* parse_time_input(time_str): minutes from midnight or None
parse_time_input(time_str) ==
    TimeOf(Without(PyLower(time_str), {" "}),
           \E i \in 1..Len(time_str) : PyLower(time_str)[i] = "am",
           \E i \in 1..Len(time_str) : PyLower(time_str)[i] = "pm")

\* update_appliance_field: the columns that may be set
allowed_fields ==
    {"name", "number", "power", "func_time", "num_windows",
     "window_1_start", "window_1_end", "window_2_start", "window_2_end",
     "window_3_start", "window_3_end", "func_cycle", "fixed", "occasional_use",
     "wd_we_type"}

HasRow(table, appliance_id) == \E i \in 1..Len(table) : table[i].appliance_id = appliance_id

\* UPDATE appliances SET field = value WHERE appliance_id = ...
SetColumn(table, appliance_id, field, value) ==
    [i \in 1..Len(table) |->
        IF table[i].appliance_id = appliance_id
        THEN [table[i] EXCEPT ![field] = value] ELSE table[i]]

\* update_appliance_field(appliance_id, field, value): the table after it and
\* whether a row came back; a statement the database refuses returns no row
update_appliance_field(table, appliance_id, field, value, result) ==
    IF field \notin allowed_fields \/ result = "raise"
    THEN [table |-> table, result |-> FALSE]
    ELSE [table |-> SetColumn(table, appliance_id, field, value),
          result |-> HasRow(table, appliance_id)]

\* delete_appliance_by_id(appliance_id): the exception of the database is not caught
delete_appliance_by_id(table, appliance_id, result) ==
    IF result = "raise"
    THEN [table |-> table, result |-> FALSE, raised |-> TRUE]
    ELSE [table |-> DeleteRow(table, appliance_id),
          result |-> HasRow(table, appliance_id), raised |-> FALSE]

\* what one command leaves behind: the table, the list appliances of the
\* editor, the line printed and whether an exception left the editor
Edited(table, list, printed) ==
    [table |-> table, appliances |-> list, printed |-> printed, raised |-> FALSE]

Raised(table, list, error) ==
    [table |-> table, appliances |-> list, printed |-> error, raised |-> TRUE]

\* target[field] = value
SetField(list, i, field, value) == [list EXCEPT ![i] = [@ EXCEPT ![field] = value]]

\* if result: the entry of the list follows the table
Stored(u, list, i, field, value, done) ==
    IF u.result THEN Edited(u.table, SetField(list, i, field, value), done)
    ELSE Edited(u.table, list, "Error")

\* a field whose text converts: the column is set; one whose text does not: ValueError
StoreValue(table, list, i, field, ok, value, result, done, complaint) ==
    IF ok
    THEN Stored(update_appliance_field(table, list[i].appliance_id, field, value, result),
                list, i, field, value, done)
    ELSE Edited(table, list, complaint)

\* the second UPDATE of the time branch, on the table the first one left
StoreEnd(first, list, i, start, end, result) ==
    Stored(update_appliance_field(first.table, list[i].appliance_id,
                                  "window_1_end", end, result),
           SetField(list, i, "window_1_start", start), i, "window_1_end", end,
           "Time updated")

KeepList(r, list) == IF r.printed = "Error" THEN [r EXCEPT !.appliances = list] ELSE r

StoreTimes(table, list, i, start, end, results) ==
    IF start.some /\ end.some
    THEN KeepList(StoreEnd(update_appliance_field(table, list[i].appliance_id,
                                                  "window_1_start", start.v, results[1]),
                           list, i, start.v, end.v, results[2]), list)
    ELSE Edited(table, list, "Could not parse times")

EditTime(table, list, i, time_parts, results) ==
    IF Len(time_parts) = 2
    THEN StoreTimes(table, list, i, parse_time_input(time_parts[1]),
                    parse_time_input(time_parts[2]), results)
    ELSE Edited(table, list, "Format: <start>-<end>")

schedule_map ==
    [w \in {"weekdays", "weekday", "wd"} |-> 0] @@
    [w \in {"weekends", "weekend", "we"} |-> 1] @@
    [w \in {"both", "all", "whole", "daily"} |-> 2]

EditSchedule(table, list, i, value_str, result) ==
    IF Len(value_str) = 1 /\ value_str[1] \in DOMAIN schedule_map
    THEN StoreValue(table, list, i, "wd_we_type", TRUE, IntV(schedule_map[value_str[1]]),
                    result, "Schedule updated", "")
    ELSE Edited(table, list, "Options: weekdays, weekends, both")

EditOccasional(table, list, i, value, result) ==
    IF value.ok /\ ~(0 <= value.num /\ value.num <= value.den)
    THEN Edited(table, list, "Must be between 0.0 and 1.0")
    ELSE StoreValue(table, list, i, "occasional_use", value.ok,
                    FloatV((value.num * 10) \div value.den), result,
                    "Occasional use updated", "Must be a decimal")

\* the branches of "Parse based on field type"
EditField(table, list, i, field, value_str, results) ==
    CASE field = <<"power">> ->
             StoreValue(table, list, i, "power", IntOfText(Without(value_str, {"w", "W"})).ok,
                        IntV(IntOfText(Without(value_str, {"w", "W"})).n), results[1],
                        "Power updated", "Power must be a number")
      [] field \in {<<"qty">>, <<"quantity">>, <<"number">>} ->
             StoreValue(table, list, i, "number", IntOfText(value_str).ok,
                        IntV(IntOfText(value_str).n), results[1],
                        "Quantity updated", "Quantity must be a number")
      [] field = <<"name">> ->
             StoreValue(table, list, i, "name", TRUE, StrV(value_str), results[1],
                        "Name updated", "")
      [] field \in {<<"hours">>, <<"usage">>} ->
             StoreValue(table, list, i, "func_time", FloatOfText(Without(value_str, {"h"})).ok,
                        IntV(Truncated(FloatOfText(Without(value_str, {"h"})).num * 60,
                                       FloatOfText(Without(value_str, {"h"})).den)),
                        results[1], "Usage updated", "Hours must be a number")
      [] field = <<"time">> ->
             EditTime(table, list, i, SplitAt(Without(value_str, {" "}), "-"), results)
      [] field = <<"schedule">> ->
             EditSchedule(table, list, i, PyLower(value_str), results[1])
      [] field \in {<<"cycle">>, <<"func_cycle">>} ->
             StoreValue(table, list, i, "func_cycle", IntOfText(value_str).ok,
                        IntV(IntOfText(value_str).n), results[1],
                        "Cycle time updated", "Cycle must be a number in minutes")
      [] field \in {<<"occasional">>, <<"occasional_use">>, <<"frequency">>} ->
             EditOccasional(table, list, i, FloatOfText(value_str), results[1])
      [] OTHER -> Edited(table, list, "Unknown field")

\* the answer typed at the k-th prompt of a command, an empty line if none
AnswerAt(answers, k) == IF k <= Len(answers) THEN Strip(answers[k]) ELSE <<>>

\* if not value_str: the value is asked for; an empty answer cancels
WithValue(table, list, i, field, value_str, results) ==
    IF value_str = <<>> THEN Edited(table, list, "Cancelled.")
    ELSE EditField(table, list, i, field, value_str, results)

\* parts[2].split()[0].lower() and what follows it; IndexError where parts[2] is empty
FieldAndValue(table, list, i, rest, answers, results) ==
    IF Strip(rest) = <<>> THEN Raised(table, list, "IndexError")
    ELSE WithValue(table, list, i,
                   PyLower(SubSeq(rest, 1, FirstFrom(rest, 1, IsSpace) - 1)),
                   IF Strip(SubSeq(rest, FirstFrom(rest, 1, IsSpace), Len(rest))) # <<>>
                   THEN Strip(SubSeq(rest, FirstFrom(rest, 1, IsSpace), Len(rest)))
                   ELSE AnswerAt(answers, 1),
                   results)

\* edit <#> with and without a field
EditEntry(table, list, i, words, answers, results) ==
    IF ~(1 <= i /\ i <= Len(list)) THEN Edited(table, list, "Invalid number")
    ELSE IF Len(words) = 2
    THEN IF PyLower(AnswerAt(answers, 1)) = <<"back">> THEN Edited(table, list, "")
         ELSE FieldAndValue(table, list, i, PyLower(AnswerAt(answers, 1)),
                            Tail(answers \o <<<<>>>>), results)
    ELSE FieldAndValue(table, list, i, words[3], answers, results)

Pop1(list, i) == [k \in 1..(Len(list) - 1) |-> IF k < i THEN list[k] ELSE list[k + 1]]

Deleted(d, list, i) ==
    IF d.raised THEN Raised(d.table, list, "Exception")
    ELSE IF d.result THEN Edited(d.table, Pop1(list, i), "Deleted")
    ELSE Edited(d.table, list, "Delete failed")

\* delete <#>
DeleteEntry(table, list, i, answers, results) ==
    IF ~(1 <= i /\ i <= Len(list)) THEN Edited(table, list, "Invalid number")
    ELSE IF PyLower(AnswerAt(answers, 1)) \in {<<"yes">>, <<"y">>}
    THEN Deleted(delete_appliance_by_id(table, list[i].appliance_id, results[1]), list, i)
    ELSE Edited(table, list, "Cancelled.")

\* one line typed at Edit>, split into at most three words
EditLine(table, list, words, answers, results) ==
    IF Len(words) >= 2 /\ PyLower(words[1]) = <<"delete">>
    THEN IF IntOfText(words[2]).ok
         THEN DeleteEntry(table, list, IntOfText(words[2]).n, answers, results)
         ELSE Edited(table, list, "Usage: delete <number>")
    ELSE IF Len(words) >= 2 /\ PyLower(words[1]) = <<"edit">>
    THEN IF IntOfText(words[2]).ok
         THEN EditEntry(table, list, IntOfText(words[2]).n, words, answers, results)
         ELSE Edited(table, list, "Usage: edit <number> [field] [value]")
    ELSE Edited(table, list, "Commands")

-----------------------------------------------------------------------------
(* main.py and appliance_editor.py: a session with chat turns and the editor *)

\* how many lines are typed at Edit> in a session
MaxEdits == 2

Typed(words, answers) == [words |-> words, answers |-> answers]

\* the lines typed at Edit>, each with the answers to the prompts that follow it
EditLines ==
    { Typed(<<<<"delete">>, <<"1">>>>, <<<<"yes">>>>),
      Typed(<<<<"edit">>, <<"1">>, <<"power", " ", "2", "0", "0", "w">>>>, <<>>),
      Typed(<<<<"Edit">>, <<"1">>>>, <<<<"qty">>, <<"2">>>>),
      Typed(<<<<"edit">>, <<"1">>>>, <<>>),
      Typed(<<<<"edit">>, <<"1">>, <<"name", " ", "TV">>>>, <<>>),
      Typed(<<<<"edit">>, <<"1">>, <<"hours", " ", "2", "5">>>>, <<>>),
      Typed(<<<<"edit">>, <<"1">>, <<"time", " ", "9", "am", "-", "6", "pm">>>>, <<>>),
      Typed(<<<<"edit">>, <<"1">>, <<"time", " ", "6", "pm", "-", "9", "am">>>>, <<>>),
      Typed(<<<<"edit">>, <<"1">>, <<"time", " ", "9", "am", "-", "2", "4", ":", "5", "9">>>>, <<>>),
      Typed(<<<<"edit">>, <<"1">>, <<"schedule", " ", "weekdays">>>>, <<>>),
      Typed(<<<<"edit">>, <<"1">>, <<"cycle", " ", "2", "4", "0">>>>, <<>>),
      Typed(<<<<"edit">>, <<"1">>, <<"occasional", " ", "0", ".", "5">>>>, <<>>),
      Typed(<<<<"edit">>, <<"2">>, <<"power", " ", "5">>>>, <<>>),
      Typed(<<<<"list">>>>, <<>>) }

\* 'edit': handle_edit_command reads the appliances of the session and returns
\* at once if there are none
EnterEdit ==
    /\ pc = "input"
    /\ pc' = IF get_session_appliances(appliances_table) = <<>> THEN "input" ELSE "edit"
    /\ edit_appliances' = get_session_appliances(appliances_table)
    /\ appliance_count' = IF get_session_appliances(appliances_table) = <<>>
                           THEN 0 ELSE appliance_count
    /\ UNCHANGED <<turns, conversation_context, appliances_table, next_id, response,
                   extracted_appliances, idx, outcome, consecutive_duplicates,
                   last_response, last_questions_asked, ending, previous_response,
                   loop_detected, edits>>
    /\ UNCHANGED <<vvars, xvars, svars, mvars, kvars, hvars>>

AfterLine(r) ==
    /\ appliances_table' = r.table
    /\ edit_appliances' = r.appliances
    /\ pc' = IF r.raised THEN "crashed" ELSE "edit"

\* one line typed at Edit> and dealt with
EditCommand(line, results) ==
    /\ pc = "edit"
    /\ edits < MaxEdits
    /\ edits' = edits + 1
    /\ AfterLine(EditLine(appliances_table, edit_appliances, line.words, line.answers, results))
    /\ UNCHANGED <<turns, conversation_context, next_id, response, extracted_appliances,
                   idx, outcome, appliance_count, consecutive_duplicates, last_response,
                   last_questions_asked, ending, previous_response, loop_detected>>
    /\ UNCHANGED <<vvars, xvars, svars, mvars, kvars, hvars>>

\* 'done': the editor returns and chat_loop counts the appliances again
Done ==
    /\ pc = "edit"
    /\ pc' = "input"
    /\ edit_appliances' = <<>>
    /\ appliance_count' = Len(get_session_appliances(appliances_table))
    /\ UNCHANGED <<turns, conversation_context, appliances_table, next_id, response,
                   extracted_appliances, idx, outcome, consecutive_duplicates,
                   last_response, last_questions_asked, ending, previous_response,
                   loop_detected, edits>>
    /\ UNCHANGED <<vvars, xvars, svars, mvars, kvars, hvars>>

NextEdit ==
    \/ Quit
    \/ \E text \in EditReplies : Told(text)
    \/ \E result \in InsertResults : ProcessRecord(result)
    \/ ShowResponse
    \/ EnterEdit
    \/ \E line \in EditLines : \E results \in InsertResults \X InsertResults :
           EditCommand(line, results)
    \/ Done

SpecEdit == Init /\ [][NextEdit]_vars

-----------------------------------------------------------------------------
(* Properties of the stored records *)

\* a stored value that is a whole number of minutes of the day
Minute(v) == v.t = "int" /\ 0 <= v.n /\ v.n <= 1440

\* a window that is not set, or one that ends after it starts within the day
WindowOk(start, end) ==
    \/ start = NullV /\ end = NullV
    \/ Minute(start) /\ Minute(end) /\ end.n > start.n

RowOk(row) ==
    /\ WindowOk(row.window_1_start, row.window_1_end)
    /\ WindowOk(row.window_2_start, row.window_2_end)
    /\ WindowOk(row.window_3_start, row.window_3_end)
    /\ Minute(row.func_time)
    /\ Minute(row.func_cycle)
    /\ row.func_cycle.n < row.func_time.n

\* C19: every row of the appliances table has windows that end after they
\* start, minute values within 0..1440 and a func_cycle strictly less than its
\* func_time, after any chat turns and editor commands
C19_RecordsKeepInvariants ==
    \A i \in 1..Len(appliances_table) : RowOk(appliances_table[i])

\* C20: no step changes a field of a row that stays in the table: a row that
\* is in the table before and after a step, by its appliance_id, is the same row
C20_NoFieldChangesInPlace ==
    [][\A i \in 1..Len(appliances_table) : \A j \in 1..Len(appliances_table') :
           appliances_table[i].appliance_id = appliances_table'[j].appliance_id
               => appliances_table'[j] = appliances_table[i]]_vars

-----------------------------------------------------------------------------
(* utils/json_extractor.py: clean_json_string applied to a text and to its own
   result *)

\* how many atoms the text given to clean_json_string has
MaxRaw == 3

\* the atoms it is made of
RawAtoms == {"<fence>", "json", " ", "\n", "{", "}", ",", "'", "\"", "//", "True", "a"}

InitClean ==
    /\ IdleClean
    /\ IdleHistory
    /\ IdleSchedule
    /\ IdleMessages
    /\ IdleEdit
    /\ IdleValidate
    /\ IdleExtract
    /\ IdleChat

TypeRaw(a) ==
    /\ ~cleanings.done
    /\ Len(raw_json) < MaxRaw
    /\ raw_json' = Append(raw_json, a)
    /\ UNCHANGED <<cleanings, vvars, xvars, cvars, svars, mvars, evars, hvars>>

CleanTwice(once) == [once |-> once, twice |-> clean_json_string(once), done |-> TRUE]

\* clean_json_string(raw), and clean_json_string of what it returned
Clean ==
    /\ ~cleanings.done
    /\ cleanings' = CleanTwice(clean_json_string(raw_json))
    /\ UNCHANGED <<raw_json, vvars, xvars, cvars, svars, mvars, evars, hvars>>

NextClean ==
    \/ \E a \in RawAtoms : TypeRaw(a)
    \/ Clean

SpecClean == InitClean /\ [][NextClean]_vars

\* C21: clean_json_string applied to its own result returns that result
C21_CleanIsIdempotent == cleanings.done => cleanings.twice = cleanings.once

-----------------------------------------------------------------------------
(* services/validation_service.py: validate_appliance on records whose
   func_cycle is set around their func_time *)

\* func_cycle set to func_time + by
SetCycle(by) ==
    /\ changed = {}
    /\ Get(data, K_func_time, IntV(0)).n + by >= 1
    /\ data' = Put(data, K_func_cycle, IntV(Get(data, K_func_time, IntV(0)).n + by))
    /\ validation' = validate_appliance(data')
    /\ UNCHANGED <<changed, xvars, cvars, ovars>>

NextCycle == \E by \in {-1, 0, 1} : SetCycle(by)

SpecCycle == InitValidate /\ [][NextCycle]_vars

\* C22: a record whose func_cycle is greater than or equal to its func_time,
\* the two being equal included, is reported a violation
C22_CycleStrictlyLess ==
    Get(data, K_func_cycle, IntV(1)).n >= Get(data, K_func_time, IntV(0)).n
        => ~validation.valid /\ validation.errors # <<>>

-----------------------------------------------------------------------------
(* Properties of the stages of the extractor *)

\* the second and third stage on a content the strict decode failed on: the
\* repair where it gives a record, the salvage otherwise
RepairThenSalvage(content, fixed) ==
    IF IfTruthy(fixed) # <<>> THEN IfTruthy(fixed)
    ELSE IfTruthy(try_manual_extraction(content))

\* the stages in their order on one content, the first that succeeds deciding
StagesInOrder(content, loaded) ==
    IF loaded.ok THEN Validated(loaded.v, ModelOf(loaded.v))
    ELSE RepairThenSalvage(content, try_fix_truncated_json(content))

\* the text is one candidate block, with or without its end marker
OneBlock == Len(parts) = 1 /\ parts[1].kind = "block"

\* C23: for a candidate block, terminated or not, the strict decode is tried
\* first and its record is the one returned where it succeeds; the repair is
\* tried only after it failed, the salvage only after both gave no record
C23_StagesInOrder ==
    extracted /\ OneBlock =>
        appliances = StagesInOrder(Strip(parts[1].content),
                                   json_loads(clean_json_string(parts[1].content)))

-----------------------------------------------------------------------------
(* Properties of the duplicate counter *)

\* C24: consecutive_duplicates is between 0 and MAX_DUPLICATES in every state
\* of the chat loop
C24_CounterBounded ==
    consecutive_duplicates >= 0 /\ consecutive_duplicates <= MAX_DUPLICATES

\* C25: once an entry has been created or has updated a stored record, the
\* counter of consecutive duplicates is 0
C25_ResetUnlessSkip ==
    outcome.decision \in {"Create", "Update"} => consecutive_duplicates = 0

-----------------------------------------------------------------------------
(* main.py: a session whose records are updated, beside the record of another
   session *)

\* a row of another session, of the name the session's own records have
OtherRow == Row(1, Put(Fan, K_session_id, StrV(<<"other">>)))

InitUpdate == Started(<<OtherRow>>, 2)

NextUpdate ==
    \/ Quit
    \/ \E text \in UpdateReplies : Told(text)
    \/ \E result \in InsertResults : ProcessRecord(result)
    \/ ShowResponse

SpecUpdate == InitUpdate /\ [][NextUpdate]_vars

\* the rows the loop body left that it had found, the one it removed left out
KeptRows == SelectSeq(outcome.before, LAMBDA row : row.appliance_id # outcome.old_id)

\* an update replaced a row where several rows of the session had the name
UpdatedAmongSeveral ==
    /\ outcome.decision = "Update"
    /\ outcome.saved
    /\ Cardinality(NamedRows) >= 2

\* C26: where several rows of the session have the candidate's normalized name,
\* a successful update removes the most recently created of them and nothing
\* else, and appends the candidate's row: the other rows, those of other
\* sessions included, are as they were and the number of rows is the same
C26_UpdateReplacesNewest ==
    UpdatedAmongSeveral =>
        /\ outcome.old_id = outcome.before[Max(NamedRows)].appliance_id
        /\ Len(outcome.table) = Len(outcome.before)
        /\ SubSeq(outcome.table, 1, Len(outcome.table) - 1) = KeptRows
        /\ outcome.table[Len(outcome.table)] =
               Row(outcome.table[Len(outcome.table)].appliance_id, outcome.extracted_data)
        /\ \A i \in 1..Len(outcome.before) :
               outcome.table[Len(outcome.table)].appliance_id # outcome.before[i].appliance_id

C26_Witness ==
    /\ UpdatedAmongSeveral
    /\ outcome.before[1] = OtherRow
    /\ outcome.table[1] = OtherRow
    /\ Len(outcome.before) = 3
    /\ outcome.old_id # outcome.before[2].appliance_id

-----------------------------------------------------------------------------
(* main.py: chat_loop, the messages given to the backend on a turn *)

\* the turns of a session that SpecHistory follows
MaxSent == 8

\* conversation_mode.py: MODES[...]['history_limit']
HistoryLimits == {15, 20, 30, 40}

\* what the user enters on the n-th turn, and what the backend answers to it
Said(n) == <<"Fan", Digits[n + 1]>>
Heard(n) == <<"Ok", Digits[n + 1]>>

\* queries.py: SELECT role, message_text ... ORDER BY message_order ASC LIMIT %s;
\* save_message appends with the next message_order, so the table is in that order
get_conversation_history(table, limit) ==
    SubSeq(table, 1, IF Len(table) < limit THEN Len(table) ELSE limit)

\* main.py: replace_json_with_summary; "[SAVED]" stands for the summary text
\* json_to_summary returns for a block, terminated or running to the end
RECURSIVE replace_json_with_summary(_)
replace_json_with_summary(message_text) ==
    LET i == FirstFrom(message_text, 1, IsStart)
        j == FirstFrom(message_text, i + 1, IsEnd)
    IN  IF i > Len(message_text) THEN Strip(message_text)
        ELSE IF j > Len(message_text)
             THEN Strip(SubSeq(message_text, 1, i - 1) \o <<"[SAVED]">>)
        ELSE Strip(SubSeq(message_text, 1, i - 1) \o <<"[SAVED]">>
                   \o replace_json_with_summary(SubSeq(message_text, j + 1, Len(message_text))))

\* clean_msg of chat_loop for one row of the history
CleanMsg(row) ==
    IF row.role = "assistant" THEN replace_json_with_summary(row.message_text)
    ELSE row.message_text

\* the for loop over recent_history: if clean_msg: messages.append(...)
Formatted(recent_history) ==
    SelectSeq([i \in 1..Len(recent_history) |->
                   Message(recent_history[i].role, CleanMsg(recent_history[i]))],
              LAMBDA m : m.content # <<>>)

\* messages as call_llm receives them, the user's message saved in table
CallMessages(table, limit, message) ==
    LET built == ensure_alternating_messages(
                           Formatted(get_conversation_history(table, limit)))
    IN  IF built = <<>> THEN <<Message("user", message)>> ELSE built

InitHistory ==
    /\ ChatStarted(<<>>, 1)
    /\ history_limit \in HistoryLimits
    /\ submitted = <<>>
    /\ IdleSchedule
    /\ IdleMessages
    /\ IdleEdit
    /\ IdleClean

\* a turn whose call to the backend fails
SendFails ==
    /\ pc = "input"
    /\ turns < MaxSent
    /\ turns' = turns + 1
    /\ conversation_context' = save_message(conversation_context, "user", Said(turns + 1), NullV)
    /\ submitted' = CallMessages(conversation_context', history_limit, Said(turns + 1))
    /\ UNCHANGED <<pc, appliances_table, next_id, response, extracted_appliances, idx,
                   outcome, appliance_count, consecutive_duplicates, last_response,
                   last_questions_asked, ending, previous_response, loop_detected>>
    /\ UNCHANGED <<vvars, xvars, svars, mvars, evars, kvars, history_limit>>

\* a turn whose call to the backend returns a text
SendAnswered ==
    /\ pc = "input"
    /\ turns < MaxSent
    /\ turns' = turns + 1
    /\ conversation_context' = save_message(conversation_context, "user", Said(turns + 1), NullV)
    /\ submitted' = CallMessages(conversation_context', history_limit, Said(turns + 1))
    /\ response' = Heard(turns + 1)
    /\ previous_response' = response
    /\ loop_detected' = "none"
    /\ extracted_appliances' = Extracted[Heard(turns + 1)]
    /\ idx' = 1
    /\ pc' = IF Extracted[Heard(turns + 1)] # <<>> THEN "records" ELSE "shown"
    /\ UNCHANGED <<appliances_table, next_id, outcome, appliance_count,
                   consecutive_duplicates, last_response, last_questions_asked, ending>>
    /\ UNCHANGED <<vvars, xvars, svars, mvars, evars, kvars, history_limit>>

NextHistory ==
    \/ Quit
    \/ SendFails
    \/ SendAnswered
    \/ ShowResponse

SpecHistory == InitHistory /\ [][NextHistory]_vars

\* the last turn reached the call to the backend
Sent == turns > 0 /\ submitted # <<>>

\* C27: on every turn that reaches the call to the backend, the last of the
\* messages given to it is a user message ending with what the user entered on
\* that turn, however long the stored history is
C27_SubmittedEndsWithUserMessage ==
    Sent =>
        LET last == submitted[Len(submitted)]
        IN  /\ last.role = "user"
            /\ Len(last.content) >= 2
            /\ SubSeq(last.content, Len(last.content) - 1, Len(last.content)) = Said(turns)

-----------------------------------------------------------------------------
(* services/context_service.py: analyze_time_windows over rows whose windows
   are not within the day *)

\* windows as the lenient validation or the editor let them be stored, and
\* two that lie within the day
StoredWindows ==
    { <<Window(-30, 60), NullV>>, <<Window(-1, 45), NullV>>,
      <<Window(-1470, 60), NullV>>, <<Window(1380, 1500), NullV>>,
      <<Window(1499, 1499), NullV>>, <<Window(600, 540), NullV>>,
      <<Window(100, 95), NullV>>, <<Window(545, 565), NullV>>,
      <<Window(300, 345), Window(900, 1000)>> }

NextWindows ==
    \/ \E name \in Names : \E windows \in StoredWindows : SaveRow(name, windows)
    \/ Analyze

SpecWindows == InitSchedule /\ [][NextWindows]_vars

\* every window of every row of the session
AllWindows == FlatMap(RowWindows, session_appliances)

\* the block of the timeline is within an occupied period of the result
Occupies(block) ==
    \E k \in 1..Len(time_windows.occupied) :
        /\ time_windows.occupied[k].start <= block * 30
        /\ block * 30 < time_windows.occupied[k].end

\* the block and [start, end) of the window have a minute of the day in common
Intersects(w, block) ==
    \E minute \in (block * 30)..(block * 30 + 29) :
        w.start.n <= minute /\ minute < w.end.n

\* C28: whatever the stored windows are, analyze_time_windows does not fail,
\* and a block is occupied only where it intersects [start, end) of a window
\* within the day: none outside a window, none by wrapping to the end of the day
C28_MarksOnlyTheWindow ==
    time_windows.analyzed =>
        /\ ~time_windows.raised
        /\ \A block \in Blocks :
               Occupies(block) =>
                   \E k \in 1..Len(AllWindows) : Intersects(AllWindows[k], block)

-----------------------------------------------------------------------------
(* main.py: chat_loop, appliance_count over turns that create, update and skip
   records and over visits to the editor *)

\* what the backend answers: two records of one name, a record, an update of a
\* record of the session, an update of a record it does not hold
CountReplies ==
    { JsonBlock(DictV(Fields(<<"Fan">>, 10, 240) \o WithWindow(360)))
        \o JsonBlock(DictV(Fields(<<"Fan">>, 10, 240) \o WithWindow(480))),
      FanBlock,
      CutBlock(DictV(Fields(<<"fan">>, 20, 240) \o WithWindow(480) \o WithUpdate)),
      CutBlock(DictV(Fields(<<"TV">>, 20, 240) \o WithWindow(480) \o WithUpdate)) }

\* the lines typed at Edit>
CountLines ==
    { Typed(<<<<"delete">>, <<"1">>>>, <<<<"yes">>>>),
      Typed(<<<<"edit">>, <<"1">>, <<"name", " ", "TV">>>>, <<>>),
      Typed(<<<<"list">>>>, <<>>) }

NextCount ==
    \/ Quit
    \/ \E text \in CountReplies : Told(text)
    \/ \E result \in InsertResults : ProcessRecord(result)
    \/ ShowResponse
    \/ EnterEdit
    \/ \E line \in CountLines : \E results \in InsertResults \X InsertResults :
           EditCommand(line, results)
    \/ Done

SpecCount == InitUpdate /\ [][NextCount]_vars

-----------------------------------------------------------------------------
(* Properties of what ensure_alternating_messages makes of the turns given *)

\* the turns of the input that have content, in their order
Kept == SelectSeq(messages, HasContent)

\* the contents of the turns a..b of a list, joined by newlines
RECURSIVE Joined(_, _, _)
Joined(turns_in, a, b) ==
    IF a = b THEN turns_in[a].content
    ELSE Joined(turns_in, a, b - 1) \o <<"\n">> \o turns_in[b].content

\* the turn is one turn of the list, or several that follow each other and have
\* its role, joined by newlines: the turns a..b
MadeOf(turn, turns_in, a, b) ==
    /\ \A i \in a..b : turns_in[i].role = turn.role
    /\ turn.content = Joined(turns_in, a, b)

\* the turns k.. of the output are made of turns of the list from position
\* from on, in the order of the list
RECURSIVE InOrder(_, _, _, _)
InOrder(out, turns_in, k, from) ==
    \/ k > Len(out)
    \/ \E a \in from..Len(turns_in) : \E b \in a..Len(turns_in) :
           /\ MadeOf(out[k], turns_in, a, b)
           /\ InOrder(out, turns_in, k + 1, b + 1)

\* the content is found within the text as it is
Within(content, text) ==
    \E p \in 0..(Len(text) - Len(content)) : SubSeq(text, p + 1, p + Len(content)) = content

Fillers == {<<"Okay", ",", " ", "noted", ".">>, <<"Continue", ".">>}

\* C30: ensure_alternating_messages only drops and merges: every turn of its
\* output is one turn of the input that has content, or consecutive ones of one
\* role joined by newlines, in the order of the input; no filler turn is put in;
\* the content of every user turn that has content is found in a user turn of the
\* output; and applied to its own output it returns it unchanged
C30_OnlyDropsAndMerges ==
    alternating.done =>
        /\ InOrder(alternating.fixed, Kept, 1, 1)
        /\ \A k \in 1..Len(alternating.fixed) : alternating.fixed[k].content \notin Fillers
        /\ \A i \in 1..Len(Kept) :
               Kept[i].role = "user" =>
                   \E k \in 1..Len(alternating.fixed) :
                       /\ alternating.fixed[k].role = "user"
                       /\ Within(Kept[i].content, alternating.fixed[k].content)
        /\ ensure_alternating_messages(alternating.fixed) = alternating.fixed

\* a leading assistant turn is dropped, two user turns around a blank assistant
\* turn are merged into one
C30_Witness ==
    /\ alternating.done
    /\ Len(messages) = 4
    /\ messages[1].role = "assistant" /\ HasContent(messages[1])
    /\ messages[2].role = "user" /\ messages[2].content = <<"Hi">>
    /\ messages[3].role = "assistant" /\ ~HasContent(messages[3])
    /\ messages[4].role = "user" /\ messages[4].content = <<"Fan">>
    /\ alternating.fixed = <<Message("user", <<"Hi", "\n", "Fan">>)>>

====
